---- MODULE Spec2Model ----
(***************************************************************************)
(* Model of the unsigned-transaction preparation layer of the Hyperliquid  *)
(* Rust SDK (src/src/unsigned/builder.rs, bridge.rs, components.rs and     *)
(* src/src/exchange/builder.rs).                                           *)
(*                                                                         *)
(* A builder is constructed once (UnsignedTransactionBuilder::new) and is  *)
(* then shared by caller threads, each of which runs prepare_unsigned_*    *)
(* calls.  The only state the calls share is the Nonce Source read and     *)
(* bumped by next_nonce(); a call is therefore split at its nonce draw.    *)
(***************************************************************************)
EXTENDS Integers, Sequences, FiniteSets, TLC

\* ------------------------------------------------------------------------
\* Bounds of the model
\* ------------------------------------------------------------------------
MaxClock == 2        \* wall-clock milliseconds explored: 1..MaxClock
MaxNonce == 3        \* nonce draws are explored while the nonce is <= MaxNonce
MaxUniverse == 2     \* longest perpetuals universe
MaxSpot == 1         \* longest spot-pair table
MaxCancels == 2      \* longest bulk-cancel batch
SpotPairIndex == 5   \* the index the spot table assigns to a name
ExtraDeposit == 1    \* bridge amounts explored up to MIN_DEPOSIT_USDC + ExtraDeposit

\* ------------------------------------------------------------------------
\* Option<T>, addresses, networks
\* ------------------------------------------------------------------------
None == <<>>
Some(x) == <<x>>
is_some(o) == Len(o) = 1
unwrap(o) == o[1]

ZeroAddress == "0x0000"
VaultA == "0xaaaa"
VaultB == "0xbbbb"

\* Option<H160>::unwrap_or_default(): H160::default() is the zero address
unwrap_or_default(o) == IF is_some(o) THEN unwrap(o) ELSE ZeroAddress

Mainnet == "Mainnet"
Testnet == "Testnet"
BaseUrls == {Mainnet, Testnet}

\* BaseUrl::get_url: one URL per network
get_url(base_url) == IF base_url = Mainnet THEN "https://api.hyperliquid.xyz"
                     ELSE "https://api.hyperliquid-testnet.xyz"

\* HttpClient::is_mainnet: the stored URL is the mainnet URL
is_mainnet(http_client) == http_client.base_url = get_url(Mainnet)

\* ------------------------------------------------------------------------
\* bridge.rs
\* ------------------------------------------------------------------------
BRIDGE_MAINNET == "0x2df1c51e09aecf9cacb7bc98cb1742757f163df7"
BRIDGE_TESTNET == "0x08cfc1b6b2dcf36a1480b99353a354aa8ac56f89"
USDC_MAINNET == "0xaf88d065e77c8cc2239327c5edb3a432268e5831"
USDC_TESTNET == "0x1baabb04529d43a73232b713c0fe471f7c7334d5"
MIN_DEPOSIT_USDC == 5000000

get_bridge_address(mainnet) == IF mainnet THEN BRIDGE_MAINNET ELSE BRIDGE_TESTNET

get_usdc_address(mainnet) == IF mainnet THEN USDC_MAINNET ELSE USDC_TESTNET

\* A formatted hexadecimal number is kept as the value it spells and the number
\* of characters written for it.
\* format!("{:064x}", to) for to: Address (H160).  LowerHex of the fixed-size
\* hash types writes each of the 20 bytes as two digits and consults neither the
\* width nor the fill of the format specification: 40 characters whatever the
\* width
H160_LowerHex(address, width) == [of |-> address, digits |-> 40]

\* the number of hexadecimal digits of n, without leading zeros
RECURSIVE HexDigits(_)
HexDigits(n) == IF n < 16 THEN 1 ELSE 1 + HexDigits(n \div 16)

\* format!("{:064x}", amount) for amount: U256.  LowerHex of the big unsigned
\* integers goes through Formatter::pad_integral: zero fill up to the width
U256_LowerHex(amount, width) ==
    [of |-> amount,
     digits |-> IF HexDigits(amount) < width THEN width ELSE HexDigits(amount)]

\* format!("0x{}{}{}", selector, to_padded, amount_padded), kept as its parts
create_usdc_transfer_data(to, amount) ==
    LET selector == "a9059cbb"
        to_padded == H160_LowerHex(to, 64)
        amount_padded == U256_LowerHex(amount, 64)
    IN [prefix |-> "0x", selector |-> selector, to_padded |-> to_padded,
        amount_padded |-> amount_padded]

\* ------------------------------------------------------------------------
\* Asset map (UnsignedTransactionBuilder::new)
\* ------------------------------------------------------------------------
PerpSymbols == {"BTC", "ETH"}
SpotNames == {"PURR/USDC", "ETH"}
ReqSymbols == PerpSymbols

\* variant: an earlier insertion stays (entry().or_insert)
insert_keeps_first(map, key, value) ==
    [k \in DOMAIN map \cup {key} |-> IF k \in DOMAIN map THEN map[k] ELSE value]

\* HashMap::insert: a later insertion replaces an earlier one with the same key
insert(map, key, value) ==
    [k \in DOMAIN map \cup {key} |-> IF k = key THEN value ELSE map[k]]

EmptyMap == [k \in {} |-> 0]

\* for (asset_ind, asset_meta) in meta.universe.iter().enumerate() { insert(name, asset_ind) }
\* positions are 0-based
RECURSIVE insert_universe_from_one(_, _, _)
insert_universe_from_one(map, universe, n) ==
    IF n > Len(universe) THEN map
    ELSE insert_universe_from_one(insert(map, universe[n], n), universe, n + 1)

RECURSIVE insert_universe(_, _, _)
insert_universe(map, universe, n) ==
    IF n > Len(universe) THEN map
    ELSE insert_universe(insert(map, universe[n], n - 1), universe, n + 1)

\* SpotMeta::add_pair_and_name_to_index_map: merges the spot-pair table, in order,
\* into the map built from the universe
RECURSIVE add_pair_and_name_to_index_map(_, _, _)
add_pair_and_name_to_index_map(spot, map, n) ==
    IF n > Len(spot) THEN map
    ELSE add_pair_and_name_to_index_map(spot, insert(map, spot[n].name, spot[n].index), n + 1)

UnsignedTransactionBuilder_new(base_url, universe, spot, vault_address) ==
    [http_client |-> [base_url |-> get_url(base_url)],
     meta |-> [universe |-> universe],
     vault_address |-> vault_address,
     coin_to_asset |-> add_pair_and_name_to_index_map(
                           spot, insert_universe(EmptyMap, universe, 1), 1)]

SeqsUpTo(S, n) == UNION {[1..k -> S] : k \in 0..n}

Universes == SeqsUpTo(PerpSymbols, MaxUniverse)
SpotTables == SeqsUpTo([name : SpotNames, index : {SpotPairIndex}], MaxSpot)
VaultAddresses == {None, Some(ZeroAddress), Some(VaultA)}

StandardUniverse == <<"BTC", "ETH">>

\* The constructor arguments and metadata explored: every asset map on a testnet builder without vault
\* (the asset map is read by symbol resolution only), and every network and
\* vault address on the standard asset map
Config(base_url, universe, spot, vault_address) ==
    [base_url |-> base_url, universe |-> universe, spot |-> spot,
     vault_address |-> vault_address]

AssetMapConfigs ==
    {Config(Testnet, m, s, None) : m \in Universes, s \in SpotTables}

NetworkConfigs ==
    {Config(u, StandardUniverse, <<>>, v) : u \in BaseUrls, v \in VaultAddresses}

Configs == AssetMapConfigs \cup NetworkConfigs

\* ------------------------------------------------------------------------
\* Nonce Source (helpers::next_nonce)
\* ------------------------------------------------------------------------
\* variant: the wall clock alone
next_nonce_clock_only(cur, clock) == clock

\* variant: never below the previous value, but not past it either
next_nonce_no_bump(cur, clock) == IF clock > cur THEN clock ELSE cur

\* compare-and-bump: the wall clock when it is past the previous value,
\* otherwise one past the previous value
next_nonce(cur, clock) == IF clock > cur THEN clock ELSE cur + 1

\* ------------------------------------------------------------------------
\* Results: Result<UnsignedTransactionComponents>, and
\* Result<(String, UnsignedTransactionComponents)> for approve_agent
\* ------------------------------------------------------------------------
NoComponents == [none |-> TRUE]

Ok(components) ==
    [status |-> "Ok", error |-> "", key |-> None, components |-> components]

OkWithKey(key, components) ==
    [status |-> "Ok", error |-> "", key |-> Some(key), components |-> components]

Err(e) ==
    [status |-> "Err", error |-> e, key |-> None, components |-> NoComponents]

NoResult ==
    [status |-> "None", error |-> "", key |-> None, components |-> NoComponents]

\* What a call yields: whether it reached next_nonce(), and its result
Outcome(drew, result) == [drew |-> drew, result |-> result]

\* ------------------------------------------------------------------------
\* Action model, hashing and serialization
\* ------------------------------------------------------------------------
H256_zero == [kind |-> "zero"]

\* Actions::hash(nonce, vault_address): the connection identifier, a hash of the
\* serialized action, the nonce and the vault address (zero address when absent)
Actions_hash(action, nonce, vault_address) ==
    [action |-> action, nonce |-> nonce,
     vault_address |-> unwrap_or_default(vault_address)]

\* l1::Agent::encode_eip712: structured-data hash of the agent envelope under
\* the fixed domain separator (chain id 1337, no chain name)
L1Agent_encode_eip712(agent) ==
    [kind |-> "eip712", domain_chain_id |-> 1337,
     primary_type |-> "Agent", message |-> agent]

\* encode_eip712 of a direct-domain action: structured-data hash of the action
\* struct under a domain separator carrying the action's signature_chain_id
encode_eip712(primary_type, action) ==
    [kind |-> "eip712", domain_chain_id |-> action.signature_chain_id,
     primary_type |-> primary_type, message |-> action]

\* variant: without the two rename attributes (rename_all = "camelCase" alone)
BuilderInfo_serialize_spelled_out(info) == [builder |-> info.builder, fee |-> info.fee]

\* BuilderInfo's Serialize: #[serde(rename = "b")] builder, #[serde(rename = "f")] fee
BuilderInfo_serialize(info) == [b |-> info.builder, f |-> info.fee]

\* BuilderInfo's Deserialize
BuilderInfo_deserialize(json) == [builder |-> json.b, fee |-> json.f]

serialize_option_builder(o) ==
    IF is_some(o) THEN Some(BuilderInfo_serialize(unwrap(o))) ELSE None

\* serde_json::to_value(Actions::...): tagged by "type", camelCase keys
to_value(action) ==
    CASE action.type = "order" ->
           [type |-> "order", orders |-> action.orders,
            grouping |-> action.grouping,
            builder |-> serialize_option_builder(action.builder)]
      [] action.type = "cancel" ->
           [type |-> "cancel", cancels |-> action.cancels]
      [] action.type = "batchModify" ->
           [type |-> "batchModify", modifies |-> action.modifies]
      [] action.type = "updateLeverage" ->
           [type |-> "updateLeverage", asset |-> action.asset,
            isCross |-> action.is_cross, leverage |-> action.leverage]
      [] action.type = "updateIsolatedMargin" ->
           [type |-> "updateIsolatedMargin", asset |-> action.asset,
            isBuy |-> action.is_buy, ntli |-> action.ntli]
      [] action.type = "vaultTransfer" ->
           [type |-> "vaultTransfer", vaultAddress |-> action.vault_address,
            isDeposit |-> action.is_deposit, usd |-> action.usd]
      [] action.type = "usdSend" ->
           [type |-> "usdSend", signatureChainId |-> action.signature_chain_id,
            hyperliquidChain |-> action.hyperliquid_chain,
            destination |-> action.destination, amount |-> action.amount,
            time |-> action.time]
      [] action.type = "withdraw3" ->
           [type |-> "withdraw3", signatureChainId |-> action.signature_chain_id,
            hyperliquidChain |-> action.hyperliquid_chain,
            destination |-> action.destination, amount |-> action.amount,
            time |-> action.time]
      [] action.type = "spotSend" ->
           [type |-> "spotSend", signatureChainId |-> action.signature_chain_id,
            hyperliquidChain |-> action.hyperliquid_chain,
            destination |-> action.destination, token |-> action.token,
            amount |-> action.amount, time |-> action.time]
      [] action.type = "approveAgent" ->
           [type |-> "approveAgent", signatureChainId |-> action.signature_chain_id,
            hyperliquidChain |-> action.hyperliquid_chain,
            agentAddress |-> action.agent_address,
            agentName |-> action.agent_name, nonce |-> action.nonce]
      [] action.type = "approveBuilderFee" ->
           [type |-> "approveBuilderFee",
            signatureChainId |-> action.signature_chain_id,
            hyperliquidChain |-> action.hyperliquid_chain,
            maxFeeRate |-> action.max_fee_rate,
            builder |-> action.builder, nonce |-> action.nonce]

\* ClientOrderRequest::convert(&coin_to_asset): resolves the symbol, or fails
\* with AssetNotFound; None stands for the error
ClientOrderRequest_convert(order, coin_to_asset) ==
    IF order.asset \in DOMAIN coin_to_asset
    THEN Some([asset |-> coin_to_asset[order.asset], is_buy |-> order.is_buy,
               reduce_only |-> order.reduce_only, limit_px |-> order.limit_px,
               sz |-> order.sz, order_type |-> order.order_type])
    ELSE None

\* LocalWallet::address(): the address derived from a private key
LocalWallet_address(key) == <<"address_of", key>>

\* str::parse::<f64>() on the margin strings explored.  f64's FromStr accepts
\* decimal numbers and, in any letter case, "inf", "infinity" and "nan" with an
\* optional sign; anything else, the empty string included, is an error (None).
\* A finite value is kept as its exact count of millionths; a finite value whose
\* count of millionths is above i64::MAX (1e13 gives 1e19) is of class "above_i64".
parse_f64(s) ==
    CASE s = "100.5" -> Some([class |-> "finite", millionths |-> 100500000])
      [] s = "-2" -> Some([class |-> "finite", millionths |-> -2000000])
      [] s = "0" -> Some([class |-> "finite", millionths |-> 0])
      [] s = "10000000000000" -> Some([class |-> "above_i64", millionths |-> 0])
      [] s = "NaN" -> Some([class |-> "nan", millionths |-> 0])
      [] s = "inf" -> Some([class |-> "inf", millionths |-> 0])
      [] OTHER -> None

\* (margin_amount * 1_000_000.0).round() as i64: NaN and infinity stay what they
\* are under * and round(), and the cast saturates: NaN becomes 0, infinity and
\* every finite value above i64::MAX become i64::MAX
round_to_ntli(margin_amount) ==
    CASE margin_amount.class = "finite" -> margin_amount.millionths
      [] margin_amount.class = "above_i64" -> "i64::MAX"
      [] margin_amount.class = "nan" -> 0
      [] margin_amount.class = "inf" -> "i64::MAX"

\* ------------------------------------------------------------------------
\* prepare_unsigned_* (builder.rs).  Each operator is the whole function; its
\* last parameter is the value next_nonce() returns if the function calls it.
\* ------------------------------------------------------------------------
prepare_unsigned_order_with_builder(self, order, grouping, builder, nonce) ==
    LET order_request == ClientOrderRequest_convert(order, self.coin_to_asset) IN
    IF ~is_some(order_request) THEN Outcome(FALSE, Err("AssetNotFound"))
    ELSE
    LET action == [type |-> "order", orders |-> <<unwrap(order_request)>>,
                   grouping |-> IF is_some(grouping) THEN unwrap(grouping) ELSE "na",
                   builder |-> builder]
        connection_id == Actions_hash(action, nonce, self.vault_address)
        agent == [source |-> unwrap_or_default(self.vault_address),
                  connection_id |-> connection_id]
        digest == L1Agent_encode_eip712(agent)
        action_json == to_value(action)
    IN Outcome(TRUE, Ok([action_payload_json |-> action_json,
                         nonce |-> nonce,
                         digest_to_sign |-> digest,
                         vault_address |-> self.vault_address,
                         eip712_domain_chain_id |-> Some(1337),
                         eip712_hyperliquid_chain_name |-> None,
                         is_l1_agent_signature |-> TRUE]))

prepare_unsigned_order(self, order, grouping, nonce) ==
    prepare_unsigned_order_with_builder(self, order, grouping, None, nonce)

\* variant: an unresolved symbol falls back to index 0 (unwrap_or_default)
prepare_unsigned_cancel_default_index(self, cancel, nonce) ==
    LET asset_index == IF cancel.asset \in DOMAIN self.coin_to_asset
                       THEN self.coin_to_asset[cancel.asset] ELSE 0
        cancel_request == [asset |-> asset_index, oid |-> cancel.oid]
        action == [type |-> "cancel", cancels |-> <<cancel_request>>]
        connection_id == Actions_hash(action, nonce, self.vault_address)
        agent == [source |-> unwrap_or_default(self.vault_address),
                  connection_id |-> connection_id]
        digest == L1Agent_encode_eip712(agent)
        action_json == to_value(action)
    IN Outcome(TRUE, Ok([action_payload_json |-> action_json,
                         nonce |-> nonce,
                         digest_to_sign |-> digest,
                         vault_address |-> self.vault_address,
                         eip712_domain_chain_id |-> Some(1337),
                         eip712_hyperliquid_chain_name |-> None,
                         is_l1_agent_signature |-> TRUE]))

\* variant: the envelope's source left empty when the builder has no vault address
prepare_unsigned_cancel_empty_source(self, cancel, nonce) ==
    IF cancel.asset \notin DOMAIN self.coin_to_asset
    THEN Outcome(TRUE, Err("AssetNotFound"))
    ELSE
    LET asset_index == self.coin_to_asset[cancel.asset]
        cancel_request == [asset |-> asset_index, oid |-> cancel.oid]
        action == [type |-> "cancel", cancels |-> <<cancel_request>>]
        connection_id == Actions_hash(action, nonce, self.vault_address)
        agent == [source |-> IF is_some(self.vault_address)
                             THEN unwrap(self.vault_address) ELSE "",
                  connection_id |-> connection_id]
        digest == L1Agent_encode_eip712(agent)
        action_json == to_value(action)
    IN Outcome(TRUE, Ok([action_payload_json |-> action_json,
                         nonce |-> nonce,
                         digest_to_sign |-> digest,
                         vault_address |-> self.vault_address,
                         eip712_domain_chain_id |-> Some(1337),
                         eip712_hyperliquid_chain_name |-> None,
                         is_l1_agent_signature |-> TRUE]))

\* variant: the action carries the one cancel itself, not a list of one
prepare_unsigned_cancel_unlisted(self, cancel, nonce) ==
    IF cancel.asset \notin DOMAIN self.coin_to_asset
    THEN Outcome(TRUE, Err("AssetNotFound"))
    ELSE
    LET asset_index == self.coin_to_asset[cancel.asset]
        cancel_request == [asset |-> asset_index, oid |-> cancel.oid]
        action == [type |-> "cancel", cancels |-> cancel_request]
        connection_id == Actions_hash(action, nonce, self.vault_address)
        agent == [source |-> unwrap_or_default(self.vault_address),
                  connection_id |-> connection_id]
        digest == L1Agent_encode_eip712(agent)
        action_json == to_value(action)
    IN Outcome(TRUE, Ok([action_payload_json |-> action_json,
                         nonce |-> nonce,
                         digest_to_sign |-> digest,
                         vault_address |-> self.vault_address,
                         eip712_domain_chain_id |-> Some(1337),
                         eip712_hyperliquid_chain_name |-> None,
                         is_l1_agent_signature |-> TRUE]))

prepare_unsigned_cancel(self, cancel, nonce) ==
    IF cancel.asset \notin DOMAIN self.coin_to_asset
    THEN Outcome(TRUE, Err("AssetNotFound"))
    ELSE
    LET asset_index == self.coin_to_asset[cancel.asset]
        cancel_request == [asset |-> asset_index, oid |-> cancel.oid]
        action == [type |-> "cancel", cancels |-> <<cancel_request>>]
        connection_id == Actions_hash(action, nonce, self.vault_address)
        agent == [source |-> unwrap_or_default(self.vault_address),
                  connection_id |-> connection_id]
        digest == L1Agent_encode_eip712(agent)
        action_json == to_value(action)
    IN Outcome(TRUE, Ok([action_payload_json |-> action_json,
                         nonce |-> nonce,
                         digest_to_sign |-> digest,
                         vault_address |-> self.vault_address,
                         eip712_domain_chain_id |-> Some(1337),
                         eip712_hyperliquid_chain_name |-> None,
                         is_l1_agent_signature |-> TRUE]))

\* variant: the envelope source names the network ("a" mainnet, "b" testnet)
prepare_unsigned_update_leverage_network_source(self, leverage, asset, is_cross, nonce) ==
    IF asset \notin DOMAIN self.coin_to_asset
    THEN Outcome(TRUE, Err("AssetNotFound"))
    ELSE
    LET asset_index == self.coin_to_asset[asset]
        action == [type |-> "updateLeverage", asset |-> asset_index,
                   is_cross |-> is_cross, leverage |-> leverage]
        connection_id == Actions_hash(action, nonce, self.vault_address)
        agent == [source |-> IF is_mainnet(self.http_client) THEN "a" ELSE "b",
                  connection_id |-> connection_id]
        digest == L1Agent_encode_eip712(agent)
        action_json == to_value(action)
    IN Outcome(TRUE, Ok([action_payload_json |-> action_json,
                         nonce |-> nonce,
                         digest_to_sign |-> digest,
                         vault_address |-> self.vault_address,
                         eip712_domain_chain_id |-> Some(1337),
                         eip712_hyperliquid_chain_name |-> None,
                         is_l1_agent_signature |-> TRUE]))

prepare_unsigned_update_leverage(self, leverage, asset, is_cross, nonce) ==
    IF asset \notin DOMAIN self.coin_to_asset
    THEN Outcome(TRUE, Err("AssetNotFound"))
    ELSE
    LET asset_index == self.coin_to_asset[asset]
        action == [type |-> "updateLeverage", asset |-> asset_index,
                   is_cross |-> is_cross, leverage |-> leverage]
        connection_id == Actions_hash(action, nonce, self.vault_address)
        agent == [source |-> unwrap_or_default(self.vault_address),
                  connection_id |-> connection_id]
        digest == L1Agent_encode_eip712(agent)
        action_json == to_value(action)
    IN Outcome(TRUE, Ok([action_payload_json |-> action_json,
                         nonce |-> nonce,
                         digest_to_sign |-> digest,
                         vault_address |-> self.vault_address,
                         eip712_domain_chain_id |-> Some(1337),
                         eip712_hyperliquid_chain_name |-> None,
                         is_l1_agent_signature |-> TRUE]))

prepare_unsigned_update_isolated_margin(self, asset, margin_to_add, nonce) ==
    IF asset \notin DOMAIN self.coin_to_asset
    THEN Outcome(TRUE, Err("AssetNotFound"))
    ELSE
    LET asset_index == self.coin_to_asset[asset]
        margin_amount == parse_f64(margin_to_add)
    IN
    IF ~is_some(margin_amount) THEN Outcome(TRUE, Err("FloatStringParse"))
    ELSE
    LET ntli == round_to_ntli(unwrap(margin_amount))
        action == [type |-> "updateIsolatedMargin", asset |-> asset_index,
                   is_buy |-> TRUE, ntli |-> ntli]
        connection_id == Actions_hash(action, nonce, self.vault_address)
        agent == [source |-> unwrap_or_default(self.vault_address),
                  connection_id |-> connection_id]
        digest == L1Agent_encode_eip712(agent)
        action_json == to_value(action)
    IN Outcome(TRUE, Ok([action_payload_json |-> action_json,
                         nonce |-> nonce,
                         digest_to_sign |-> digest,
                         vault_address |-> self.vault_address,
                         eip712_domain_chain_id |-> Some(1337),
                         eip712_hyperliquid_chain_name |-> None,
                         is_l1_agent_signature |-> TRUE]))

\* variant: the nonce where the amount belongs (both are u64)
prepare_unsigned_vault_transfer_usd_from_nonce(self, is_deposit, usd, vault_address, nonce) ==
    LET action == [type |-> "vaultTransfer",
                   vault_address |-> unwrap_or_default(vault_address),
                   is_deposit |-> is_deposit, usd |-> nonce]
        connection_id == Actions_hash(action, nonce, self.vault_address)
        agent == [source |-> unwrap_or_default(self.vault_address),
                  connection_id |-> connection_id]
        digest == L1Agent_encode_eip712(agent)
        action_json == to_value(action)
    IN Outcome(TRUE, Ok([action_payload_json |-> action_json,
                         nonce |-> nonce,
                         digest_to_sign |-> digest,
                         vault_address |-> self.vault_address,
                         eip712_domain_chain_id |-> Some(1337),
                         eip712_hyperliquid_chain_name |-> None,
                         is_l1_agent_signature |-> TRUE]))

\* variant: reports the settlement chain id, as the direct-domain operations do
prepare_unsigned_vault_transfer_settlement_chain(self, is_deposit, usd, vault_address, nonce) ==
    LET action == [type |-> "vaultTransfer",
                   vault_address |-> unwrap_or_default(vault_address),
                   is_deposit |-> is_deposit, usd |-> usd]
        connection_id == Actions_hash(action, nonce, self.vault_address)
        agent == [source |-> unwrap_or_default(self.vault_address),
                  connection_id |-> connection_id]
        digest == L1Agent_encode_eip712(agent)
        action_json == to_value(action)
    IN Outcome(TRUE, Ok([action_payload_json |-> action_json,
                         nonce |-> nonce,
                         digest_to_sign |-> digest,
                         vault_address |-> self.vault_address,
                         eip712_domain_chain_id |->
                             Some(IF is_mainnet(self.http_client) THEN 42161 ELSE 421614),
                         eip712_hyperliquid_chain_name |-> None,
                         is_l1_agent_signature |-> TRUE]))

\* variant: without the argument, the action names the builder's vault address
prepare_unsigned_vault_transfer_builder_fallback(self, is_deposit, usd, vault_address, nonce) ==
    LET action == [type |-> "vaultTransfer",
                   vault_address |-> IF is_some(vault_address) THEN unwrap(vault_address)
                                     ELSE unwrap_or_default(self.vault_address),
                   is_deposit |-> is_deposit, usd |-> usd]
        connection_id == Actions_hash(action, nonce, self.vault_address)
        agent == [source |-> unwrap_or_default(self.vault_address),
                  connection_id |-> connection_id]
        digest == L1Agent_encode_eip712(agent)
        action_json == to_value(action)
    IN Outcome(TRUE, Ok([action_payload_json |-> action_json,
                         nonce |-> nonce,
                         digest_to_sign |-> digest,
                         vault_address |-> self.vault_address,
                         eip712_domain_chain_id |-> Some(1337),
                         eip712_hyperliquid_chain_name |-> None,
                         is_l1_agent_signature |-> TRUE]))

prepare_unsigned_vault_transfer(self, is_deposit, usd, vault_address, nonce) ==
    LET action == [type |-> "vaultTransfer",
                   vault_address |-> unwrap_or_default(vault_address),
                   is_deposit |-> is_deposit, usd |-> usd]
        connection_id == Actions_hash(action, nonce, self.vault_address)
        agent == [source |-> unwrap_or_default(self.vault_address),
                  connection_id |-> connection_id]
        digest == L1Agent_encode_eip712(agent)
        action_json == to_value(action)
    IN Outcome(TRUE, Ok([action_payload_json |-> action_json,
                         nonce |-> nonce,
                         digest_to_sign |-> digest,
                         vault_address |-> self.vault_address,
                         eip712_domain_chain_id |-> Some(1337),
                         eip712_hyperliquid_chain_name |-> None,
                         is_l1_agent_signature |-> TRUE]))

prepare_unsigned_modify_order(self, modify_request_client, nonce) ==
    LET order_request ==
            ClientOrderRequest_convert(modify_request_client.order, self.coin_to_asset) IN
    IF ~is_some(order_request) THEN Outcome(FALSE, Err("AssetNotFound"))
    ELSE
    LET transformed_modify == [oid |-> modify_request_client.oid,
                               order |-> unwrap(order_request)]
        action == [type |-> "batchModify", modifies |-> <<transformed_modify>>]
        connection_id == Actions_hash(action, nonce, self.vault_address)
        agent == [source |-> unwrap_or_default(self.vault_address),
                  connection_id |-> connection_id]
        digest == L1Agent_encode_eip712(agent)
        action_json == to_value(action)
    IN Outcome(TRUE, Ok([action_payload_json |-> action_json,
                         nonce |-> nonce,
                         digest_to_sign |-> digest,
                         vault_address |-> self.vault_address,
                         eip712_domain_chain_id |-> Some(1337),
                         eip712_hyperliquid_chain_name |-> None,
                         is_l1_agent_signature |-> TRUE]))

\* variant: the loop leaves out an entry whose symbol is unknown and goes on
RECURSIVE transform_cancels_skips_unknown(_, _, _, _)
transform_cancels_skips_unknown(self, cancels_client, n, transformed_cancels) ==
    IF n > Len(cancels_client) THEN Some(transformed_cancels)
    ELSE IF cancels_client[n].asset \notin DOMAIN self.coin_to_asset
    THEN transform_cancels_skips_unknown(self, cancels_client, n + 1, transformed_cancels)
    ELSE transform_cancels_skips_unknown(self, cancels_client, n + 1,
             Append(transformed_cancels,
                    [asset |-> self.coin_to_asset[cancels_client[n].asset],
                     oid |-> cancels_client[n].oid]))

\* the loop of prepare_unsigned_bulk_cancel: None when a symbol is unknown
\* (the ? leaves the function at the first one), else the transformed cancels
RECURSIVE transform_cancels(_, _, _, _)
transform_cancels(self, cancels_client, n, transformed_cancels) ==
    IF n > Len(cancels_client) THEN Some(transformed_cancels)
    ELSE IF cancels_client[n].asset \notin DOMAIN self.coin_to_asset THEN None
    ELSE transform_cancels(self, cancels_client, n + 1,
             Append(transformed_cancels,
                    [asset |-> self.coin_to_asset[cancels_client[n].asset],
                     oid |-> cancels_client[n].oid]))

prepare_unsigned_bulk_cancel(self, cancels_client, nonce) ==
    LET transformed_cancels == transform_cancels(self, cancels_client, 1, <<>>) IN
    IF ~is_some(transformed_cancels) THEN Outcome(FALSE, Err("AssetNotFound"))
    ELSE
    LET action == [type |-> "cancel", cancels |-> unwrap(transformed_cancels)]
        connection_id == Actions_hash(action, nonce, self.vault_address)
        agent == [source |-> unwrap_or_default(self.vault_address),
                  connection_id |-> connection_id]
        digest == L1Agent_encode_eip712(agent)
        action_json == to_value(action)
    IN Outcome(TRUE, Ok([action_payload_json |-> action_json,
                         nonce |-> nonce,
                         digest_to_sign |-> digest,
                         vault_address |-> self.vault_address,
                         eip712_domain_chain_id |-> Some(1337),
                         eip712_hyperliquid_chain_name |-> None,
                         is_l1_agent_signature |-> TRUE]))

\* variant: the mainnet chain id whatever the network
prepare_unsigned_withdraw_mainnet_id(self, amount, destination, nonce) ==
    LET hyperliquid_chain_name ==
            IF is_mainnet(self.http_client) THEN "Mainnet" ELSE "Testnet"
        signature_chain_id ==
            42161
        action == [type |-> "withdraw3",
                   signature_chain_id |-> signature_chain_id,
                   hyperliquid_chain |-> hyperliquid_chain_name,
                   destination |-> destination,
                   amount |-> amount,
                   time |-> nonce]
        action_payload_json == to_value(action)
        digest_to_sign == encode_eip712("HyperliquidTransaction:Withdraw", action)
    IN Outcome(TRUE, Ok([action_payload_json |-> action_payload_json,
                         nonce |-> nonce,
                         digest_to_sign |-> digest_to_sign,
                         vault_address |-> self.vault_address,
                         eip712_domain_chain_id |-> Some(signature_chain_id),
                         eip712_hyperliquid_chain_name |-> Some(hyperliquid_chain_name),
                         is_l1_agent_signature |-> FALSE]))

\* variant: a second draw for the time field (one past the first)
prepare_unsigned_withdraw_second_draw(self, amount, destination, nonce) ==
    LET hyperliquid_chain_name ==
            IF is_mainnet(self.http_client) THEN "Mainnet" ELSE "Testnet"
        signature_chain_id ==
            IF is_mainnet(self.http_client) THEN 42161 ELSE 421614
        action == [type |-> "withdraw3",
                   signature_chain_id |-> signature_chain_id,
                   hyperliquid_chain |-> hyperliquid_chain_name,
                   destination |-> destination,
                   amount |-> amount,
                   time |-> nonce + 1]
        action_payload_json == to_value(action)
        digest_to_sign == encode_eip712("HyperliquidTransaction:Withdraw", action)
    IN Outcome(TRUE, Ok([action_payload_json |-> action_payload_json,
                         nonce |-> nonce,
                         digest_to_sign |-> digest_to_sign,
                         vault_address |-> self.vault_address,
                         eip712_domain_chain_id |-> Some(signature_chain_id),
                         eip712_hyperliquid_chain_name |-> Some(hyperliquid_chain_name),
                         is_l1_agent_signature |-> FALSE]))

prepare_unsigned_withdraw(self, amount, destination, nonce) ==
    LET hyperliquid_chain_name ==
            IF is_mainnet(self.http_client) THEN "Mainnet" ELSE "Testnet"
        signature_chain_id ==
            IF is_mainnet(self.http_client) THEN 42161 ELSE 421614
        action == [type |-> "withdraw3",
                   signature_chain_id |-> signature_chain_id,
                   hyperliquid_chain |-> hyperliquid_chain_name,
                   destination |-> destination,
                   amount |-> amount,
                   time |-> nonce]
        action_payload_json == to_value(action)
        digest_to_sign == encode_eip712("HyperliquidTransaction:Withdraw", action)
    IN Outcome(TRUE, Ok([action_payload_json |-> action_payload_json,
                         nonce |-> nonce,
                         digest_to_sign |-> digest_to_sign,
                         vault_address |-> self.vault_address,
                         eip712_domain_chain_id |-> Some(signature_chain_id),
                         eip712_hyperliquid_chain_name |-> Some(hyperliquid_chain_name),
                         is_l1_agent_signature |-> FALSE]))

\* variant: leaves the digest to the client, as the bridge deposit does
prepare_unsigned_spot_transfer_zero_digest(self, amount, destination, token, nonce) ==
    LET hyperliquid_chain_name ==
            IF is_mainnet(self.http_client) THEN "Mainnet" ELSE "Testnet"
        signature_chain_id ==
            IF is_mainnet(self.http_client) THEN 42161 ELSE 421614
        action == [type |-> "spotSend",
                   signature_chain_id |-> signature_chain_id,
                   hyperliquid_chain |-> hyperliquid_chain_name,
                   destination |-> destination,
                   token |-> token,
                   amount |-> amount,
                   time |-> nonce]
        action_payload_json == to_value(action)
        digest_to_sign == H256_zero
    IN Outcome(TRUE, Ok([action_payload_json |-> action_payload_json,
                         nonce |-> nonce,
                         digest_to_sign |-> digest_to_sign,
                         vault_address |-> self.vault_address,
                         eip712_domain_chain_id |-> Some(signature_chain_id),
                         eip712_hyperliquid_chain_name |-> Some(hyperliquid_chain_name),
                         is_l1_agent_signature |-> FALSE]))

prepare_unsigned_spot_transfer(self, amount, destination, token, nonce) ==
    LET hyperliquid_chain_name ==
            IF is_mainnet(self.http_client) THEN "Mainnet" ELSE "Testnet"
        signature_chain_id ==
            IF is_mainnet(self.http_client) THEN 42161 ELSE 421614
        action == [type |-> "spotSend",
                   signature_chain_id |-> signature_chain_id,
                   hyperliquid_chain |-> hyperliquid_chain_name,
                   destination |-> destination,
                   token |-> token,
                   amount |-> amount,
                   time |-> nonce]
        action_payload_json == to_value(action)
        digest_to_sign == encode_eip712("HyperliquidTransaction:SpotSend", action)
    IN Outcome(TRUE, Ok([action_payload_json |-> action_payload_json,
                         nonce |-> nonce,
                         digest_to_sign |-> digest_to_sign,
                         vault_address |-> self.vault_address,
                         eip712_domain_chain_id |-> Some(signature_chain_id),
                         eip712_hyperliquid_chain_name |-> Some(hyperliquid_chain_name),
                         is_l1_agent_signature |-> FALSE]))

\* variant: the action names the mainnet chain whatever the network
prepare_unsigned_approve_builder_fee_mainnet_name(self, builder, max_fee_rate, nonce) ==
    LET hyperliquid_chain_name ==
            IF is_mainnet(self.http_client) THEN "Mainnet" ELSE "Testnet"
        signature_chain_id ==
            IF is_mainnet(self.http_client) THEN 42161 ELSE 421614
        action == [type |-> "approveBuilderFee",
                   signature_chain_id |-> signature_chain_id,
                   hyperliquid_chain |-> "Mainnet",
                   builder |-> builder,
                   max_fee_rate |-> max_fee_rate,
                   nonce |-> nonce]
        action_payload_json == to_value(action)
        digest_to_sign == encode_eip712("HyperliquidTransaction:ApproveBuilderFee", action)
    IN Outcome(TRUE, Ok([action_payload_json |-> action_payload_json,
                         nonce |-> nonce,
                         digest_to_sign |-> digest_to_sign,
                         vault_address |-> self.vault_address,
                         eip712_domain_chain_id |-> Some(signature_chain_id),
                         eip712_hyperliquid_chain_name |-> Some(hyperliquid_chain_name),
                         is_l1_agent_signature |-> FALSE]))

prepare_unsigned_approve_builder_fee(self, builder, max_fee_rate, nonce) ==
    LET hyperliquid_chain_name ==
            IF is_mainnet(self.http_client) THEN "Mainnet" ELSE "Testnet"
        signature_chain_id ==
            IF is_mainnet(self.http_client) THEN 42161 ELSE 421614
        action == [type |-> "approveBuilderFee",
                   signature_chain_id |-> signature_chain_id,
                   hyperliquid_chain |-> hyperliquid_chain_name,
                   builder |-> builder,
                   max_fee_rate |-> max_fee_rate,
                   nonce |-> nonce]
        action_payload_json == to_value(action)
        digest_to_sign == encode_eip712("HyperliquidTransaction:ApproveBuilderFee", action)
    IN Outcome(TRUE, Ok([action_payload_json |-> action_payload_json,
                         nonce |-> nonce,
                         digest_to_sign |-> digest_to_sign,
                         vault_address |-> self.vault_address,
                         eip712_domain_chain_id |-> Some(signature_chain_id),
                         eip712_hyperliquid_chain_name |-> Some(hyperliquid_chain_name),
                         is_l1_agent_signature |-> FALSE]))

\* variant: returns the components alone
prepare_unsigned_approve_agent_drops_key(self, random_key, nonce) ==
    LET hyperliquid_chain_name ==
            IF is_mainnet(self.http_client) THEN "Mainnet" ELSE "Testnet"
        signature_chain_id ==
            IF is_mainnet(self.http_client) THEN 42161 ELSE 421614
    IN
    IF ~is_some(random_key) THEN Outcome(TRUE, Err("RandomKey"))
    ELSE
    LET key == unwrap(random_key)
        agent_address == LocalWallet_address(key)
        action == [type |-> "approveAgent",
                   signature_chain_id |-> signature_chain_id,
                   hyperliquid_chain |-> hyperliquid_chain_name,
                   agent_address |-> agent_address,
                   agent_name |-> None,
                   nonce |-> nonce]
        action_payload_json == to_value(action)
        digest_to_sign == encode_eip712("HyperliquidTransaction:ApproveAgent", action)
    IN Outcome(TRUE, Ok(
                        [action_payload_json |-> action_payload_json,
                         nonce |-> nonce,
                         digest_to_sign |-> digest_to_sign,
                         vault_address |-> self.vault_address,
                         eip712_domain_chain_id |-> Some(signature_chain_id),
                         eip712_hyperliquid_chain_name |-> Some(hyperliquid_chain_name),
                         is_l1_agent_signature |-> FALSE]))

\* variant: the key handed back is not the key the agent address was derived from
prepare_unsigned_approve_agent_other_key(self, random_key, nonce) ==
    LET hyperliquid_chain_name ==
            IF is_mainnet(self.http_client) THEN "Mainnet" ELSE "Testnet"
        signature_chain_id ==
            IF is_mainnet(self.http_client) THEN 42161 ELSE 421614
    IN
    IF ~is_some(random_key) THEN Outcome(TRUE, Err("RandomKey"))
    ELSE
    LET key == unwrap(random_key)
        second_key == IF key = "key1" THEN "key2" ELSE "key1"
        agent_address == LocalWallet_address(key)
        action == [type |-> "approveAgent",
                   signature_chain_id |-> signature_chain_id,
                   hyperliquid_chain |-> hyperliquid_chain_name,
                   agent_address |-> agent_address,
                   agent_name |-> None,
                   nonce |-> nonce]
        action_payload_json == to_value(action)
        digest_to_sign == encode_eip712("HyperliquidTransaction:ApproveAgent", action)
    IN Outcome(TRUE, OkWithKey(second_key,
                        [action_payload_json |-> action_payload_json,
                         nonce |-> nonce,
                         digest_to_sign |-> digest_to_sign,
                         vault_address |-> self.vault_address,
                         eip712_domain_chain_id |-> Some(signature_chain_id),
                         eip712_hyperliquid_chain_name |-> Some(hyperliquid_chain_name),
                         is_l1_agent_signature |-> FALSE]))

\* random_key is what generate_random_key() yields: Some(key), or None when it fails
prepare_unsigned_approve_agent(self, random_key, nonce) ==
    LET hyperliquid_chain_name ==
            IF is_mainnet(self.http_client) THEN "Mainnet" ELSE "Testnet"
        signature_chain_id ==
            IF is_mainnet(self.http_client) THEN 42161 ELSE 421614
    IN
    IF ~is_some(random_key) THEN Outcome(TRUE, Err("RandomKey"))
    ELSE
    LET key == unwrap(random_key)
        agent_address == LocalWallet_address(key)
        action == [type |-> "approveAgent",
                   signature_chain_id |-> signature_chain_id,
                   hyperliquid_chain |-> hyperliquid_chain_name,
                   agent_address |-> agent_address,
                   agent_name |-> None,
                   nonce |-> nonce]
        action_payload_json == to_value(action)
        digest_to_sign == encode_eip712("HyperliquidTransaction:ApproveAgent", action)
    IN Outcome(TRUE, OkWithKey(key,
                        [action_payload_json |-> action_payload_json,
                         nonce |-> nonce,
                         digest_to_sign |-> digest_to_sign,
                         vault_address |-> self.vault_address,
                         eip712_domain_chain_id |-> Some(signature_chain_id),
                         eip712_hyperliquid_chain_name |-> Some(hyperliquid_chain_name),
                         is_l1_agent_signature |-> FALSE]))

\* variant: rejects the minimum itself
prepare_unsigned_bridge_deposit_exclusive_min(self, amount) ==
    LET mainnet == is_mainnet(self.http_client)
        bridge_address == get_bridge_address(mainnet)
        usdc_address == get_usdc_address(mainnet)
        min_deposit == MIN_DEPOSIT_USDC
    IN
    IF amount <= min_deposit THEN Outcome(FALSE, Err("GenericParse"))
    ELSE
    LET transfer_data == create_usdc_transfer_data(bridge_address, amount)
        chain_id == IF mainnet THEN "0xa4b1" ELSE "0x66eee"
        transaction_data == [to |-> usdc_address, data |-> transfer_data,
                             value |-> "0x0", chainId |-> chain_id]
    IN Outcome(FALSE, Ok([action_payload_json |-> transaction_data,
                          nonce |-> 0,
                          digest_to_sign |-> H256_zero,
                          vault_address |-> None,
                          eip712_domain_chain_id |->
                              Some(IF mainnet THEN 42161 ELSE 421614),
                          eip712_hyperliquid_chain_name |-> None,
                          is_l1_agent_signature |-> FALSE]))

\* variant: reports the builder's vault address, as every other operation does
prepare_unsigned_bridge_deposit_builder_vault(self, amount) ==
    LET mainnet == is_mainnet(self.http_client)
        bridge_address == get_bridge_address(mainnet)
        usdc_address == get_usdc_address(mainnet)
        min_deposit == MIN_DEPOSIT_USDC
    IN
    IF amount < min_deposit THEN Outcome(FALSE, Err("GenericParse"))
    ELSE
    LET transfer_data == create_usdc_transfer_data(bridge_address, amount)
        chain_id == IF mainnet THEN "0xa4b1" ELSE "0x66eee"
        transaction_data == [to |-> usdc_address, data |-> transfer_data,
                             value |-> "0x0", chainId |-> chain_id]
    IN Outcome(FALSE, Ok([action_payload_json |-> transaction_data,
                          nonce |-> 0,
                          digest_to_sign |-> H256_zero,
                          vault_address |-> self.vault_address,
                          eip712_domain_chain_id |->
                              Some(IF mainnet THEN 42161 ELSE 421614),
                          eip712_hyperliquid_chain_name |-> None,
                          is_l1_agent_signature |-> FALSE]))

\* never calls next_nonce()
prepare_unsigned_bridge_deposit(self, amount) ==
    LET mainnet == is_mainnet(self.http_client)
        bridge_address == get_bridge_address(mainnet)
        usdc_address == get_usdc_address(mainnet)
        min_deposit == MIN_DEPOSIT_USDC
    IN
    IF amount < min_deposit THEN Outcome(FALSE, Err("GenericParse"))
    ELSE
    LET transfer_data == create_usdc_transfer_data(bridge_address, amount)
        chain_id == IF mainnet THEN "0xa4b1" ELSE "0x66eee"
        transaction_data == [to |-> usdc_address, data |-> transfer_data,
                             value |-> "0x0", chainId |-> chain_id]
    IN Outcome(FALSE, Ok([action_payload_json |-> transaction_data,
                          nonce |-> 0,
                          digest_to_sign |-> H256_zero,
                          vault_address |-> None,
                          eip712_domain_chain_id |->
                              Some(IF mainnet THEN 42161 ELSE 421614),
                          eip712_hyperliquid_chain_name |-> None,
                          is_l1_agent_signature |-> FALSE]))

\* ------------------------------------------------------------------------
\* State
\* ------------------------------------------------------------------------
VARIABLES
    builder,        \* the UnsignedTransactionBuilder shared by the callers
    spot_meta,      \* the spot-pair table the venue returned to the constructor
    callers,        \* the threads that share the builder
    workload,       \* which requests the callers make: "all", "symbols" or "concurrent"
    now,            \* wall clock, in milliseconds
    cur_nonce,      \* the Nonce Source: the last value it gave out (0: none yet)
    call,           \* per caller: its current call, or its last one once returned
    result,         \* per caller: what its last returned call handed back
    max_returned,   \* the largest nonce a returned call has handed back
    ctor            \* UnsignedTransactionBuilder::new: its arguments, position and locals

vars == <<builder, spot_meta, callers, workload, now, cur_nonce, call, result,
          max_returned, ctor>>

\* ------------------------------------------------------------------------
\* prepare_unsigned_usdc_transfer (builder.rs), placed here for its variant,
\* which reads the clock
\* ------------------------------------------------------------------------
\* variant: the time field read from the wall clock, not taken from the nonce
prepare_unsigned_usdc_transfer_clock_time(self, amount_str, destination_str, nonce) ==
    LET hyperliquid_chain_name ==
            IF is_mainnet(self.http_client) THEN "Mainnet" ELSE "Testnet"
        signature_chain_id ==
            IF is_mainnet(self.http_client) THEN 42161 ELSE 421614
        action == [type |-> "usdSend",
                   signature_chain_id |-> signature_chain_id,
                   hyperliquid_chain |-> hyperliquid_chain_name,
                   destination |-> destination_str,
                   amount |-> amount_str,
                   time |-> now]
        action_payload_json == to_value(action)
        digest_to_sign == encode_eip712("HyperliquidTransaction:UsdSend", action)
    IN Outcome(TRUE, Ok([action_payload_json |-> action_payload_json,
                         nonce |-> nonce,
                         digest_to_sign |-> digest_to_sign,
                         vault_address |-> self.vault_address,
                         eip712_domain_chain_id |-> Some(signature_chain_id),
                         eip712_hyperliquid_chain_name |-> Some(hyperliquid_chain_name),
                         is_l1_agent_signature |-> FALSE]))

prepare_unsigned_usdc_transfer(self, amount_str, destination_str, nonce) ==
    LET hyperliquid_chain_name ==
            IF is_mainnet(self.http_client) THEN "Mainnet" ELSE "Testnet"
        signature_chain_id ==
            IF is_mainnet(self.http_client) THEN 42161 ELSE 421614
        action == [type |-> "usdSend",
                   signature_chain_id |-> signature_chain_id,
                   hyperliquid_chain |-> hyperliquid_chain_name,
                   destination |-> destination_str,
                   amount |-> amount_str,
                   time |-> nonce]
        action_payload_json == to_value(action)
        digest_to_sign == encode_eip712("HyperliquidTransaction:UsdSend", action)
    IN Outcome(TRUE, Ok([action_payload_json |-> action_payload_json,
                         nonce |-> nonce,
                         digest_to_sign |-> digest_to_sign,
                         vault_address |-> self.vault_address,
                         eip712_domain_chain_id |-> Some(signature_chain_id),
                         eip712_hyperliquid_chain_name |-> Some(hyperliquid_chain_name),
                         is_l1_agent_signature |-> FALSE]))

\* ------------------------------------------------------------------------
\* Requests the callers make
\* ------------------------------------------------------------------------
NoReq == [asset |-> "", cancels |-> <<>>, margin_to_add |-> "", amount |-> 0,
          vault_address |-> None, random_key |-> None, builder |-> None]

MarginStrings == {"100.5", "-2", "0", "10000000000000", "abc", "", "NaN", "inf"}
SampleBuilderInfo == [builder |-> "0xf5bc", fee |-> 5]
\* builder is a String, not checked to be an address; fee is a u64
BuilderInfos == [builder : {"0xf5bc", "0xF5Bc", ""}, fee : {0, 5}]
RandomKeys == {None, Some("key1"), Some("key2")}
DepositAmounts == {0} \cup ((MIN_DEPOSIT_USDC - 1)..(MIN_DEPOSIT_USDC + ExtraDeposit))

Request(op, req) == [op |-> op, req |-> req]

AllRequests ==
    {Request("order", [NoReq EXCEPT !.asset = a]) : a \in ReqSymbols}
    \cup {Request("order_with_builder",
                  [NoReq EXCEPT !.asset = a, !.builder = Some(SampleBuilderInfo)]) :
              a \in ReqSymbols}
    \cup {Request("order_with_builder",
                  [NoReq EXCEPT !.asset = "ETH", !.builder = Some(i)]) :
              i \in BuilderInfos}
    \cup {Request("cancel", [NoReq EXCEPT !.asset = a]) : a \in ReqSymbols}
    \cup {Request("bulk_cancel", [NoReq EXCEPT !.cancels = cs]) :
              cs \in SeqsUpTo(ReqSymbols, MaxCancels)}
    \cup {Request("modify_order", [NoReq EXCEPT !.asset = a]) : a \in ReqSymbols}
    \cup {Request("update_leverage", [NoReq EXCEPT !.asset = a]) : a \in ReqSymbols}
    \cup {Request("update_isolated_margin",
                  [NoReq EXCEPT !.asset = a, !.margin_to_add = m]) :
              a \in ReqSymbols, m \in MarginStrings}
    \cup {Request("vault_transfer", [NoReq EXCEPT !.vault_address = v]) :
              v \in {None, Some(VaultB)}}
    \cup {Request(op, NoReq) :
              op \in {"usdc_transfer", "withdraw", "spot_transfer", "approve_builder_fee"}}
    \cup {Request("approve_agent", [NoReq EXCEPT !.random_key = k]) : k \in RandomKeys}
    \cup {Request("bridge_deposit", [NoReq EXCEPT !.amount = n]) : n \in DepositAmounts}

\* the requests made of a builder explored for its asset map: those that name a
\* symbol
SymbolRequests ==
    {w \in AllRequests :
        /\ w.req.asset # "" \/ w.op = "bulk_cancel"
        /\ w.req.builder \in {None, Some(SampleBuilderInfo)}}

\* the requests two concurrent callers draw from: one or two per operation
ConcRequests ==
    {w \in AllRequests :
        /\ w.req.asset \in {"", "ETH"}
        /\ w.req.builder \in {None, Some(SampleBuilderInfo)}
        /\ Len(w.req.cancels) = 0
        /\ w.req.margin_to_add \in {"", "100.5"}
        /\ w.req.vault_address = None
        /\ w.req.random_key \in RandomKeys
        /\ w.req.amount \in {0, MIN_DEPOSIT_USDC}}

\* the builders two concurrent callers share: one per network on the standard
\* asset map, and one with a vault address whose asset map lacks ETH
ConcConfigs ==
    {Config(u, StandardUniverse, <<>>, None) : u \in BaseUrls}
    \cup {Config(Testnet, <<"BTC">>, <<>>, Some(VaultA))}

ClientOrderRequest(asset) ==
    [asset |-> asset, is_buy |-> TRUE, reduce_only |-> FALSE, limit_px |-> 2000,
     sz |-> 1, order_type |-> [limit |-> [tif |-> "Gtc"]]]

ClientCancelRequest(asset) == [asset |-> asset, oid |-> 12345]

\* a batch of cancels: the order ids differ from entry to entry
ClientCancelRequests(assets) ==
    [i \in 1..Len(assets) |-> [ClientCancelRequest(assets[i]) EXCEPT !.oid = @ + i - 1]]

ClientModifyRequest(asset) == [oid |-> 12345, order |-> ClientOrderRequest(asset)]

\* The call a caller makes for request (op, req), as a function of the value
\* next_nonce() returns to it
prepare_unsigned(self, op, req, nonce) ==
    CASE op = "order" ->
           prepare_unsigned_order(self, ClientOrderRequest(req.asset), None, nonce)
      [] op = "order_with_builder" ->
           prepare_unsigned_order_with_builder(
               self, ClientOrderRequest(req.asset), None, req.builder, nonce)
      [] op = "cancel" ->
           prepare_unsigned_cancel(self, ClientCancelRequest(req.asset), nonce)
      [] op = "bulk_cancel" ->
           prepare_unsigned_bulk_cancel(self, ClientCancelRequests(req.cancels), nonce)
      [] op = "modify_order" ->
           prepare_unsigned_modify_order(self, ClientModifyRequest(req.asset), nonce)
      [] op = "update_leverage" ->
           prepare_unsigned_update_leverage(self, 10, req.asset, TRUE, nonce)
      [] op = "update_isolated_margin" ->
           prepare_unsigned_update_isolated_margin(
               self, req.asset, req.margin_to_add, nonce)
      [] op = "vault_transfer" ->
           prepare_unsigned_vault_transfer(self, TRUE, 100, req.vault_address, nonce)
      [] op = "usdc_transfer" ->
           prepare_unsigned_usdc_transfer(self, "100.0", "0x742d", nonce)
      [] op = "withdraw" ->
           prepare_unsigned_withdraw(self, "50.0", "0x742d", nonce)
      [] op = "spot_transfer" ->
           prepare_unsigned_spot_transfer(self, "100.0", "0x742d", "USDC", nonce)
      [] op = "approve_agent" ->
           prepare_unsigned_approve_agent(self, req.random_key, nonce)
      [] op = "approve_builder_fee" ->
           prepare_unsigned_approve_builder_fee(self, "0xf5bc", "0.001%", nonce)
      [] op = "bridge_deposit" ->
           prepare_unsigned_bridge_deposit(self, req.amount)

\* ------------------------------------------------------------------------
\* Initial state and steps
\* ------------------------------------------------------------------------
Idle == [pc |-> "idle", op |-> "", req |-> NoReq, pending |-> NoResult,
         drawn_at |-> 0]

\* the constructor after it returned Ok(builder), having fetched both feeds
Constructed(self) ==
    [pc |-> "returned", status |-> "Ok", error |-> "",
     base_url |-> IF is_mainnet(self.http_client) THEN Mainnet ELSE Testnet,
     meta_override |-> None, vault_address |-> self.vault_address,
     queried |-> {"meta", "spot_meta"}, failed |-> "",
     meta |-> self.meta, coin_to_asset |-> self.coin_to_asset]

Init ==
    /\ \E cfg \in Configs :
           /\ builder = UnsignedTransactionBuilder_new(
                            cfg.base_url, cfg.universe, cfg.spot, cfg.vault_address)
           /\ spot_meta = cfg.spot
    /\ ctor = Constructed(builder)
    /\ callers = {"t1"}
    /\ workload = IF \E cfg \in NetworkConfigs :
                         builder = UnsignedTransactionBuilder_new(
                                       cfg.base_url, cfg.universe, cfg.spot,
                                       cfg.vault_address)
                  THEN "all" ELSE "symbols"
    /\ now = 1
    /\ cur_nonce = 0
    /\ call = [c \in callers |-> Idle]
    /\ result = [c \in callers |-> NoResult]
    /\ max_returned = 0

InitConc ==
    /\ \E cfg \in ConcConfigs :
           /\ builder = UnsignedTransactionBuilder_new(
                            cfg.base_url, cfg.universe, cfg.spot, cfg.vault_address)
           /\ spot_meta = cfg.spot
    /\ ctor = Constructed(builder)
    /\ callers = {"t1", "t2"}
    /\ workload = "concurrent"
    /\ now = 1
    /\ cur_nonce = 0
    /\ call = [c \in callers |-> Idle]
    /\ result = [c \in callers |-> NoResult]
    /\ max_returned = 0

\* the wall clock advances
Tick ==
    /\ now < MaxClock
    /\ now' = now + 1
    /\ UNCHANGED <<builder, spot_meta, callers, workload, cur_nonce, call, result,
                   max_returned, ctor>>

\* variant: a failed symbol lookup leaves the symbol in the asset map with index
\* 0 (entry().or_insert in place of get)
Begin_inserts_unknown(c, w, outcome) ==
    /\ ctor.status = "Ok"
    /\ call[c].pc = "idle"
    /\ IF outcome.drew
       THEN /\ next_nonce(cur_nonce, now) <= MaxNonce
            /\ cur_nonce' = next_nonce(cur_nonce, now)
            /\ call' = [call EXCEPT ![c] =
                          [pc |-> "drawn", op |-> w.op, req |-> w.req,
                           pending |-> outcome.result, drawn_at |-> now]]
            /\ result' = [result EXCEPT ![c] = NoResult]
       ELSE /\ cur_nonce' = cur_nonce
            /\ call' = [call EXCEPT ![c] =
                          [pc |-> "idle", op |-> w.op, req |-> w.req,
                           pending |-> NoResult, drawn_at |-> 0]]
            /\ result' = [result EXCEPT ![c] = outcome.result]
    /\ builder' = IF outcome.result.error = "AssetNotFound" /\ w.req.asset # ""
                  THEN [builder EXCEPT !.coin_to_asset = insert(@, w.req.asset, 0)]
                  ELSE builder
    /\ UNCHANGED <<spot_meta, callers, workload, now, max_returned, ctor>>

\* Caller c runs a call up to and including its next_nonce(), if it has one:
\* outcome is the function applied to the value next_nonce() returns now.
\* Only a constructor that returned Ok gives the callers a builder to call.
\* A call that returns before any next_nonce() is over in this step.
Begin(c, w, outcome) ==
    /\ ctor.status = "Ok"
    /\ call[c].pc = "idle"
    /\ IF outcome.drew
       THEN /\ next_nonce(cur_nonce, now) <= MaxNonce
            /\ cur_nonce' = next_nonce(cur_nonce, now)
            /\ call' = [call EXCEPT ![c] =
                          [pc |-> "drawn", op |-> w.op, req |-> w.req,
                           pending |-> outcome.result, drawn_at |-> now]]
            /\ result' = [result EXCEPT ![c] = NoResult]
       ELSE /\ cur_nonce' = cur_nonce
            /\ call' = [call EXCEPT ![c] =
                          [pc |-> "idle", op |-> w.op, req |-> w.req,
                           pending |-> NoResult, drawn_at |-> 0]]
            /\ result' = [result EXCEPT ![c] = outcome.result]
    /\ UNCHANGED <<builder, spot_meta, callers, workload, now, max_returned, ctor>>

Max(a, b) == IF a >= b THEN a ELSE b

\* Caller c's call, past its nonce draw, runs to its end and returns
Return(c) ==
    /\ call[c].pc = "drawn"
    /\ result' = [result EXCEPT ![c] = call[c].pending]
    /\ call' = [call EXCEPT ![c].pc = "idle", ![c].pending = NoResult,
                             ![c].drawn_at = 0]
    /\ max_returned' = IF call[c].pending.status = "Ok"
                       THEN Max(max_returned, call[c].pending.components.nonce)
                       ELSE max_returned
    /\ UNCHANGED <<builder, spot_meta, callers, workload, now, cur_nonce, ctor>>

Requests(op) ==
    {w \in CASE workload = "all" -> AllRequests
              [] workload = "symbols" -> SymbolRequests
              [] workload = "concurrent" -> ConcRequests : w.op = op}

Drawn == next_nonce(cur_nonce, now)

Call_order(c) ==
    \E w \in Requests("order") :
        Begin(c, w, prepare_unsigned_order(
                        builder, ClientOrderRequest(w.req.asset), None, Drawn))

Call_order_with_builder(c) ==
    \E w \in Requests("order_with_builder") :
        Begin(c, w, prepare_unsigned_order_with_builder(
                        builder, ClientOrderRequest(w.req.asset), None,
                        w.req.builder, Drawn))

Call_cancel(c) ==
    \E w \in Requests("cancel") :
        Begin(c, w, prepare_unsigned_cancel(
                        builder, ClientCancelRequest(w.req.asset), Drawn))

Call_bulk_cancel(c) ==
    \E w \in Requests("bulk_cancel") :
        Begin(c, w, prepare_unsigned_bulk_cancel(
                        builder, ClientCancelRequests(w.req.cancels), Drawn))

Call_modify_order(c) ==
    \E w \in Requests("modify_order") :
        Begin(c, w, prepare_unsigned_modify_order(
                        builder, ClientModifyRequest(w.req.asset), Drawn))

Call_update_leverage(c) ==
    \E w \in Requests("update_leverage") :
        Begin(c, w, prepare_unsigned_update_leverage(
                        builder, 10, w.req.asset, TRUE, Drawn))

Call_update_isolated_margin(c) ==
    \E w \in Requests("update_isolated_margin") :
        Begin(c, w, prepare_unsigned_update_isolated_margin(
                        builder, w.req.asset, w.req.margin_to_add, Drawn))

Call_vault_transfer(c) ==
    \E w \in Requests("vault_transfer") :
        Begin(c, w, prepare_unsigned_vault_transfer(
                        builder, TRUE, 100, w.req.vault_address, Drawn))

Call_usdc_transfer(c) ==
    \E w \in Requests("usdc_transfer") :
        Begin(c, w, prepare_unsigned_usdc_transfer(builder, "100.0", "0x742d", Drawn))

Call_withdraw(c) ==
    \E w \in Requests("withdraw") :
        Begin(c, w, prepare_unsigned_withdraw(builder, "50.0", "0x742d", Drawn))

Call_spot_transfer(c) ==
    \E w \in Requests("spot_transfer") :
        Begin(c, w, prepare_unsigned_spot_transfer(
                        builder, "100.0", "0x742d", "USDC", Drawn))

Call_approve_agent(c) ==
    \E w \in Requests("approve_agent") :
        Begin(c, w, prepare_unsigned_approve_agent(builder, w.req.random_key, Drawn))

Call_approve_builder_fee(c) ==
    \E w \in Requests("approve_builder_fee") :
        Begin(c, w, prepare_unsigned_approve_builder_fee(
                        builder, "0xf5bc", "0.001%", Drawn))

Call_bridge_deposit(c) ==
    \E w \in Requests("bridge_deposit") :
        Begin(c, w, prepare_unsigned_bridge_deposit(builder, w.req.amount))

Next ==
    \/ Tick
    \/ \E c \in callers : Call_order(c)
    \/ \E c \in callers : Call_order_with_builder(c)
    \/ \E c \in callers : Call_cancel(c)
    \/ \E c \in callers : Call_bulk_cancel(c)
    \/ \E c \in callers : Call_modify_order(c)
    \/ \E c \in callers : Call_update_leverage(c)
    \/ \E c \in callers : Call_update_isolated_margin(c)
    \/ \E c \in callers : Call_vault_transfer(c)
    \/ \E c \in callers : Call_usdc_transfer(c)
    \/ \E c \in callers : Call_withdraw(c)
    \/ \E c \in callers : Call_spot_transfer(c)
    \/ \E c \in callers : Call_approve_agent(c)
    \/ \E c \in callers : Call_approve_builder_fee(c)
    \/ \E c \in callers : Call_bridge_deposit(c)
    \/ \E c \in callers : Return(c)

Spec == Init /\ [][Next]_vars

SpecConc == InitConc /\ [][Next]_vars

\* ------------------------------------------------------------------------
\* UnsignedTransactionBuilder::new, step by step: one step per await
\* ------------------------------------------------------------------------
NoBuilder == [none |-> TRUE]
NoMeta == [universe |-> <<>>]

\* what info.meta() returns when the venue answers
VenueUniverse == StandardUniverse

\* the meta_override argument
MetaOverrides == {None, Some(<<"ETH">>)}

InitNew ==
    /\ builder = NoBuilder
    /\ spot_meta \in SpotTables
    /\ \E m \in MetaOverrides :
           ctor = [pc |-> "start", status |-> "None", error |-> "",
                   base_url |-> Testnet, meta_override |-> m, vault_address |-> None,
                   queried |-> {}, failed |-> "",
                   meta |-> NoMeta, coin_to_asset |-> EmptyMap]
    /\ callers = {"t1"}
    /\ workload = "all"
    /\ now = 1
    /\ cur_nonce = 0
    /\ call = [c \in callers |-> Idle]
    /\ result = [c \in callers |-> NoResult]
    /\ max_returned = 0

\* an await that fails: the ? returns its error from new(), and no builder
Propagate(step) ==
    [ctor EXCEPT !.pc = "returned", !.status = "Err", !.error = step, !.failed = step]

\* let info_for_setup = InfoClient::new(None, Some(base_url)).await?;
New_info_client ==
    /\ ctor.pc = "start"
    /\ \E ok \in BOOLEAN :
           ctor' = IF ok THEN [ctor EXCEPT !.pc = "info_client"]
                   ELSE Propagate("InfoClient::new")
    /\ UNCHANGED <<builder, spot_meta, callers, workload, now, cur_nonce, call, result,
                   max_returned>>

\* let meta = if let Some(m) = meta_override { m } else { info_for_setup.meta().await? };
\* followed by the loop over meta.universe, up to the call of spot_meta()
New_meta ==
    /\ ctor.pc = "info_client"
    /\ IF is_some(ctor.meta_override)
       THEN ctor' = [ctor EXCEPT
                        !.pc = "spot_meta",
                        !.meta = [universe |-> unwrap(ctor.meta_override)],
                        !.coin_to_asset =
                            insert_universe(EmptyMap, unwrap(ctor.meta_override), 1)]
       ELSE \E ok \in BOOLEAN :
               ctor' = IF ok
                       THEN [ctor EXCEPT
                                !.pc = "spot_meta",
                                !.queried = @ \cup {"meta"},
                                !.meta = [universe |-> VenueUniverse],
                                !.coin_to_asset =
                                    insert_universe(EmptyMap, VenueUniverse, 1)]
                       ELSE Propagate("meta")
    /\ UNCHANGED <<builder, spot_meta, callers, workload, now, cur_nonce, call, result,
                   max_returned>>

\* variant: a failed spot fetch counts as an empty spot table (unwrap_or_default)
New_spot_meta_ignores_failure ==
    /\ ctor.pc = "spot_meta"
    /\ \E ok \in BOOLEAN :
           LET map == IF ok THEN add_pair_and_name_to_index_map(
                                     spot_meta, ctor.coin_to_asset, 1)
                      ELSE ctor.coin_to_asset
           IN /\ ctor' = [ctor EXCEPT
                             !.pc = "returned", !.status = "Ok",
                             !.queried = IF ok THEN @ \cup {"spot_meta"} ELSE @,
                             !.failed = IF ok THEN @ ELSE "spot_meta",
                             !.coin_to_asset = map]
              /\ builder' = [http_client |-> [base_url |-> get_url(ctor.base_url)],
                             meta |-> ctor.meta,
                             vault_address |-> ctor.vault_address,
                             coin_to_asset |-> map]
    /\ UNCHANGED <<spot_meta, callers, workload, now, cur_nonce, call, result,
                   max_returned>>

\* coin_to_asset = info_for_setup.spot_meta().await?.add_pair_and_name_to_index_map(..);
\* Ok(UnsignedTransactionBuilder { .. })
New_spot_meta ==
    /\ ctor.pc = "spot_meta"
    /\ \E ok \in BOOLEAN :
           IF ok
           THEN LET map == add_pair_and_name_to_index_map(
                               spot_meta, ctor.coin_to_asset, 1)
                IN /\ ctor' = [ctor EXCEPT
                                  !.pc = "returned", !.status = "Ok",
                                  !.queried = @ \cup {"spot_meta"},
                                  !.coin_to_asset = map]
                   /\ builder' = [http_client |-> [base_url |-> get_url(ctor.base_url)],
                                  meta |-> ctor.meta,
                                  vault_address |-> ctor.vault_address,
                                  coin_to_asset |-> map]
           ELSE /\ ctor' = Propagate("spot_meta")
                /\ builder' = builder
    /\ UNCHANGED <<spot_meta, callers, workload, now, cur_nonce, call, result,
                   max_returned>>

NextNew ==
    \/ New_info_client
    \/ New_meta
    \/ New_spot_meta
    \/ Next

SpecNew == InitNew /\ [][NextNew]_vars

\* ------------------------------------------------------------------------
\* Vocabulary of the properties
\* ------------------------------------------------------------------------
IndirectOps == {"order", "order_with_builder", "cancel", "bulk_cancel", "modify_order",
                "update_leverage", "update_isolated_margin", "vault_transfer"}
DirectOps == {"usdc_transfer", "withdraw", "spot_transfer", "approve_agent",
              "approve_builder_fee"}
SymbolOps == IndirectOps \ {"vault_transfer"}

\* caller c's last call has returned / has returned components
Returned(c) == call[c].pc = "idle" /\ result[c].status # "None"
Succeeded(c) == call[c].pc = "idle" /\ result[c].status = "Ok"

OnMainnet == builder.http_client.base_url = get_url(Mainnet)

\* the symbols caller c's call names, in order
RequestedSymbols(c) ==
    IF call[c].op = "bulk_cancel" THEN call[c].req.cancels
    ELSE IF call[c].op \in SymbolOps THEN <<call[c].req.asset>>
    ELSE <<>>

\* the asset indices inside a serialized action, in order
AssetIndices(payload) ==
    CASE payload.type = "order" ->
           [i \in 1..Len(payload.orders) |-> payload.orders[i].asset]
      [] payload.type = "cancel" ->
           [i \in 1..Len(payload.cancels) |-> payload.cancels[i].asset]
      [] payload.type = "batchModify" ->
           [i \in 1..Len(payload.modifies) |-> payload.modifies[i].order.asset]
      [] OTHER -> <<payload.asset>>

SeqToSet(q) == {q[i] : i \in 1..Len(q)}

\* C1: every successful indirect-domain call, on a mainnet or a testnet builder,
\* returns is_l1_agent_signature = true, eip712_domain_chain_id = 1337 and no
\* chain name
C1_IndirectDomainFlags ==
    \A c \in callers :
        (Succeeded(c) /\ call[c].op \in IndirectOps) =>
            /\ result[c].components.is_l1_agent_signature = TRUE
            /\ result[c].components.eip712_domain_chain_id = Some(1337)
            /\ result[c].components.eip712_hyperliquid_chain_name = None

C1_Witness ==
    \E c \in callers :
        /\ Succeeded(c)
        /\ call[c].op = "vault_transfer"
        /\ OnMainnet
        /\ result[c].components.eip712_domain_chain_id = Some(1337)

\* C2: every successful direct-domain call returns is_l1_agent_signature = false,
\* and chain id 42161 with chain name "Mainnet" on a mainnet builder, chain id
\* 421614 with chain name "Testnet" on a testnet builder
C2_DirectDomainFlags ==
    \A c \in callers :
        (Succeeded(c) /\ call[c].op \in DirectOps) =>
            /\ result[c].components.is_l1_agent_signature = FALSE
            /\ OnMainnet =>
                 /\ result[c].components.eip712_domain_chain_id = Some(42161)
                 /\ result[c].components.eip712_hyperliquid_chain_name = Some("Mainnet")
            /\ ~OnMainnet =>
                 /\ result[c].components.eip712_domain_chain_id = Some(421614)
                 /\ result[c].components.eip712_hyperliquid_chain_name = Some("Testnet")

C2_Witness ==
    \E c \in callers :
        /\ Succeeded(c)
        /\ call[c].op = "withdraw"
        /\ OnMainnet
        /\ result[c].components.eip712_domain_chain_id = Some(42161)

\* C3: a symbol-taking call that names a symbol absent from the builder's asset
\* map returns an error and no components: no action is built for it, with a
\* default asset index or otherwise
C3_UnknownSymbolIsError ==
    \A c \in callers :
        (/\ call[c].op \in SymbolOps
         /\ \E s \in SeqToSet(RequestedSymbols(c)) : s \notin DOMAIN builder.coin_to_asset)
        => /\ call[c].pending.status # "Ok"
           /\ Returned(c) => /\ result[c].status = "Err"
                             /\ result[c].components = NoComponents

C3_Witness ==
    \E c \in callers :
        /\ Returned(c)
        /\ call[c].op = "cancel"
        /\ call[c].req.asset \notin DOMAIN builder.coin_to_asset
        /\ 0 \in {builder.coin_to_asset[k] : k \in DOMAIN builder.coin_to_asset}
        /\ result[c].status = "Err"

\* C4 as stated: whenever the universe holds the requested symbol at position i,
\* the serialized action carries asset index i
C4_Original ==
    \A c \in callers :
        (Succeeded(c) /\ call[c].op \in SymbolOps) =>
            \A k \in 1..Len(RequestedSymbols(c)) :
                \A i \in 1..Len(builder.meta.universe) :
                    builder.meta.universe[i] = RequestedSymbols(c)[k] =>
                        AssetIndices(result[c].components.action_payload_json)[k] = i - 1

\* the spot-pair table does not name s
NotInSpotTable(s) == \A n \in 1..Len(spot_meta) : spot_meta[n].name # s

\* C4 (amended): when the universe holds the requested symbol s, its last
\* position in the universe is i and the spot-pair table does not redefine s,
\* the serialized action carries asset index i
C4_LastPositionIndex ==
    \A c \in callers :
        (Succeeded(c) /\ call[c].op \in SymbolOps) =>
            \A k \in 1..Len(RequestedSymbols(c)) :
                \A i \in 1..Len(builder.meta.universe) :
                    (/\ builder.meta.universe[i] = RequestedSymbols(c)[k]
                     /\ \A j \in (i + 1)..Len(builder.meta.universe) :
                            builder.meta.universe[j] # RequestedSymbols(c)[k]
                     /\ NotInSpotTable(RequestedSymbols(c)[k]))
                    => AssetIndices(result[c].components.action_payload_json)[k] = i - 1

C4_Witness ==
    \E c \in callers :
        /\ Succeeded(c)
        /\ call[c].op = "update_leverage"
        /\ call[c].req.asset = "ETH"
        /\ builder.meta.universe = <<"BTC", "ETH">>
        /\ AssetIndices(result[c].components.action_payload_json) = <<1>>

\* the nonce caller c's call holds: drawn and about to be returned, or returned
HeldNonces(c) ==
    (IF call[c].pc = "drawn" /\ call[c].pending.status = "Ok"
     THEN {call[c].pending.components.nonce} ELSE {})
    \cup
    (IF Succeeded(c) /\ call[c].op # "bridge_deposit"
     THEN {result[c].components.nonce} ELSE {})

\* C5: the nonces of calls that different threads run on the same builder are
\* pairwise distinct, however their nonce draws interleave and also when they
\* fall into the same millisecond
C5_ConcurrentNoncesDistinct ==
    \A c1 \in callers : \A c2 \in callers \ {c1} :
        HeldNonces(c1) \cap HeldNonces(c2) = {}

\* t2's call began and returned within the millisecond in which t1's call, still
\* running, drew its nonce
C5_Witness ==
    /\ callers = {"t1", "t2"}
    /\ call["t1"].pc = "drawn"
    /\ call["t1"].pending.status = "Ok"
    /\ call["t1"].drawn_at = now
    /\ Succeeded("t2")
    /\ call["t2"].op # "bridge_deposit"
    /\ result["t2"].components.nonce = call["t1"].pending.components.nonce + 1

\* caller c's call, past its nonce draw, returns components in this step
ReturnsOk(c) ==
    /\ call[c].pc = "drawn"
    /\ call'[c].pc = "idle"
    /\ result'[c].status = "Ok"

\* C6: in a sequence of calls made one after another, every successful call
\* returns a nonce greater than the nonce of every call that returned before it
C6_SequentialNoncesIncrease ==
    [][\A c \in callers :
          ReturnsOk(c) => result'[c].components.nonce > max_returned]_vars

\* two calls have returned nonces although the clock still shows its first
\* millisecond
C6_Witness ==
    /\ now = 1
    /\ max_returned >= 2
    /\ \E c \in callers : Succeeded(c) /\ result[c].components.nonce = max_returned

\* C7: every successful call other than the bridge deposit returns a nonce
\* greater than zero and a digest different from the all-zero value
C7_NonceAndDigestSet ==
    \A c \in callers :
        (Succeeded(c) /\ call[c].op \in IndirectOps \cup DirectOps) =>
            /\ result[c].components.nonce > 0
            /\ result[c].components.digest_to_sign # H256_zero

C7_Witness ==
    \E c \in callers :
        /\ Succeeded(c)
        /\ call[c].op = "spot_transfer"
        /\ result[c].components.nonce > 0

\* C8: a bridge deposit succeeds exactly when the amount is at least
\* MIN_DEPOSIT_USDC; below it the call returns an error and no components
C8_BridgeMinimum ==
    \A c \in callers :
        (Returned(c) /\ call[c].op = "bridge_deposit") =>
            /\ call[c].req.amount >= 5000000 => result[c].status = "Ok"
            /\ call[c].req.amount < 5000000 =>
                 /\ result[c].status = "Err"
                 /\ result[c].components = NoComponents

C8_Witness ==
    \E c \in callers :
        /\ Succeeded(c)
        /\ call[c].op = "bridge_deposit"
        /\ call[c].req.amount = 5000000

\* caller c makes a bridge-deposit call in this step
BridgeStep(c) ==
    /\ call[c].pc = "idle"
    /\ call'[c].op = "bridge_deposit"
    /\ <<call[c], result[c]>> # <<call'[c], result'[c]>>

\* C9: a successful bridge deposit returns nonce 0, the all-zero digest,
\* is_l1_agent_signature = false, no chain name, chain id 42161 on mainnet or
\* 421614 on testnet and no vault address, and a bridge-deposit call leaves the
\* Nonce Source as it was
C9_BridgeSentinels ==
    [][\A c \in callers :
          BridgeStep(c) =>
              /\ cur_nonce' = cur_nonce
              /\ call'[c].pc = "idle"
              /\ result'[c].status = "Ok" =>
                   /\ result'[c].components.nonce = 0
                   /\ result'[c].components.digest_to_sign = H256_zero
                   /\ result'[c].components.is_l1_agent_signature = FALSE
                   /\ result'[c].components.eip712_hyperliquid_chain_name = None
                   /\ result'[c].components.eip712_domain_chain_id =
                          Some(IF OnMainnet THEN 42161 ELSE 421614)
                   /\ result'[c].components.vault_address = None]_vars

\* a bridge deposit has succeeded on a builder that has a vault address, after
\* the Nonce Source gave out a nonce
C9_Witness ==
    \E c \in callers :
        /\ Succeeded(c)
        /\ call[c].op = "bridge_deposit"
        /\ is_some(builder.vault_address)
        /\ cur_nonce > 0
        /\ result[c].components.nonce = 0

NonceFields == {"time", "nonce"}
StripFields(payload, fields) == [k \in DOMAIN payload \ fields |-> payload[k]]

\* what the caller passed to its call: the generated agent key is not an input
CallerInputs(c) == [call[c].req EXCEPT !.random_key = None]

\* c1 and c2 made the same call with the same inputs, and both got components
SameCall(c1, c2) ==
    /\ c1 # c2
    /\ Succeeded(c1) /\ Succeeded(c2)
    /\ call[c1].op = call[c2].op
    /\ CallerInputs(c1) = CallerInputs(c2)

\* the components apart from payload, nonce and digest
Context(components) ==
    [vault_address |-> components.vault_address,
     eip712_domain_chain_id |-> components.eip712_domain_chain_id,
     eip712_hyperliquid_chain_name |-> components.eip712_hyperliquid_chain_name,
     is_l1_agent_signature |-> components.is_l1_agent_signature]

GeneratedFields(op) == IF op = "approve_agent" THEN {"agentAddress"} ELSE {}

SecondRun(c, random_key) ==
    prepare_unsigned(builder, call[c].op,
                     [call[c].req EXCEPT !.random_key = random_key],
                     result[c].components.nonce).result

SameSignable(r1, r2) ==
    /\ r1.components.action_payload_json = r2.components.action_payload_json
    /\ r1.components.digest_to_sign = r2.components.digest_to_sign

VaultTwin(self) ==
    [self EXCEPT !.vault_address = IF @ = None THEN Some(ZeroAddress) ELSE None]

\* the agent envelope a digest of the indirect domain was computed from
Envelope(digest) == digest.message

\* C13: for every indirect-domain call and nonce, a builder without vault
\* address and a builder with the zero address as vault address compute the
\* same connection identifier, the same envelope source and the same digest
C13_NoVaultIsZeroVault ==
    \A c \in callers :
        (/\ Succeeded(c)
         /\ call[c].op \in IndirectOps
         /\ builder.vault_address \in {None, Some(ZeroAddress)})
        => LET twin == prepare_unsigned(VaultTwin(builder), call[c].op, call[c].req,
                                        result[c].components.nonce).result
           IN /\ twin.status = "Ok"
              /\ Envelope(twin.components.digest_to_sign).connection_id
                     = Envelope(result[c].components.digest_to_sign).connection_id
              /\ Envelope(twin.components.digest_to_sign).source
                     = Envelope(result[c].components.digest_to_sign).source
              /\ twin.components.digest_to_sign = result[c].components.digest_to_sign

\* a cancel prepared by a builder without vault address carries the zero address
\* as its envelope source
C13_Witness ==
    \E c \in callers :
        /\ Succeeded(c)
        /\ call[c].op = "cancel"
        /\ builder.vault_address = None
        /\ VaultTwin(builder).vault_address = Some(ZeroAddress)
        /\ Envelope(result[c].components.digest_to_sign).source = ZeroAddress

\* a step of a call: some caller's call or result changes
CallStep == call' # call \/ result' # result

\* C14: no step of any call, successful or failed, by one caller or by
\* concurrent callers, changes the builder's asset map, vault address, network
\* identity or metadata; of the state the callers share, a call changes the
\* Nonce Source at most
C14_BuilderImmutable ==
    [][CallStep =>
          /\ builder'.coin_to_asset = builder.coin_to_asset
          /\ builder'.vault_address = builder.vault_address
          /\ builder'.http_client = builder.http_client
          /\ builder'.meta = builder.meta
          /\ now' = now]_vars

\* both callers have returned, one from a failed symbol lookup, one with
\* components, and the builder is still what the constructor built
C14_Witness ==
    /\ callers = {"t1", "t2"}
    /\ Returned("t1") /\ result["t1"].error = "AssetNotFound"
    /\ Succeeded("t2")
    /\ cur_nonce >= 2
    /\ builder = UnsignedTransactionBuilder_new(Testnet, <<"BTC">>, <<>>, Some(VaultA))

\* some prepare_unsigned_* call has been made
SomeCallMade == \E c \in callers : call[c] # Idle \/ result[c] # NoResult

\* the asset map made of both feeds: the universe, then the spot-pair table
MapOfBothFeeds(universe) ==
    add_pair_and_name_to_index_map(spot_meta, insert_universe(EmptyMap, universe, 1), 1)

\* a failed await returns its error and no builder, and no call is ever made
FailureAborts ==
    /\ ctor.status = "Err" <=> ctor.failed # ""
    /\ ctor.status = "Err" => ctor.error = ctor.failed
    /\ ctor.status # "Ok" => builder = NoBuilder /\ ~SomeCallMade

\* C15 as stated: a builder exists only after both feeds were queried and
\* obtained; a failed step returns its error and no builder
C15_Original ==
    /\ ctor.status = "Ok" =>
          /\ ctor.queried = {"meta", "spot_meta"}
          /\ builder.coin_to_asset = MapOfBothFeeds(builder.meta.universe)
    /\ FailureAborts

\* C15 (amended): a builder exists only after the spot-pair feed was queried and
\* obtained and the perpetuals universe was either queried and obtained or
\* supplied by the caller as meta_override; its asset map is made of both; a
\* failed step returns its error and no builder, so no call observes the map
\* built from the universe alone
C15_BothFeedsOrOverride ==
    /\ ctor.status = "Ok" =>
          /\ "spot_meta" \in ctor.queried
          /\ "meta" \in ctor.queried \/ is_some(ctor.meta_override)
          /\ "meta" \in ctor.queried => builder.meta.universe = VenueUniverse
          /\ is_some(ctor.meta_override) =>
                 builder.meta.universe = unwrap(ctor.meta_override)
          /\ builder.coin_to_asset = MapOfBothFeeds(builder.meta.universe)
          /\ builder = UnsignedTransactionBuilder_new(
                           ctor.base_url, builder.meta.universe, spot_meta,
                           ctor.vault_address)
    /\ FailureAborts

\* a cancel of ETH got the spot table's index from a builder whose universe was
\* fetched and holds ETH at position 1
C15_Witness ==
    \E c \in callers :
        /\ ctor.queried = {"meta", "spot_meta"}
        /\ ctor.meta_override = None
        /\ Succeeded(c)
        /\ call[c].op = "cancel"
        /\ call[c].req.asset = "ETH"
        /\ ~NotInSpotTable("ETH")
        /\ AssetIndices(result[c].components.action_payload_json) = <<SpotPairIndex>>

\* the margin strings that denote a finite decimal number
FiniteDecimals == {"100.5", "-2", "0", "10000000000000"}

\* C16: prepare_unsigned_update_isolated_margin with a known symbol and a margin
\* string that denotes no finite decimal number returns FloatStringParse and no
\* components
C16_MalformedMarginIsError ==
    \A c \in callers :
        (/\ Returned(c)
         /\ call[c].op = "update_isolated_margin"
         /\ call[c].req.asset \in DOMAIN builder.coin_to_asset
         /\ call[c].req.margin_to_add \notin FiniteDecimals)
        => /\ result[c].status = "Err"
           /\ result[c].error = "FloatStringParse"
           /\ result[c].components = NoComponents

ValidationErrors == {"AssetNotFound", "FloatStringParse"}

\* caller c begins a call in this step that fails validation: at once, or after
\* its nonce draw
FailsValidation(c) ==
    /\ call[c].pc = "idle"
    /\ call'[c] # call[c] \/ result'[c] # result[c]
    /\ \/ call'[c].pc = "idle" /\ result'[c].error \in ValidationErrors
       \/ call'[c].pc = "drawn" /\ call'[c].pending.error \in ValidationErrors

\* C19: a call that fails with an unknown symbol or a malformed numeric field
\* leaves the Nonce Source unchanged
C19_ValidationBeforeNonce ==
    [][\A c \in callers : FailsValidation(c) => cur_nonce' = cur_nonce]_vars

\* C20: in every successful direct-domain call, the signatureChainId and
\* hyperliquidChain of the payload, and of the action struct that was hashed,
\* equal the chain id and chain name of the components, the domain separator
\* carries that chain id, and the pair is (42161, "Mainnet") on a mainnet
\* builder and (421614, "Testnet") on a testnet builder
C20_PayloadChainMatchesDomain ==
    \A c \in callers :
        (Succeeded(c) /\ call[c].op \in DirectOps) =>
            LET payload == result[c].components.action_payload_json
                digest == result[c].components.digest_to_sign
                chain_id == result[c].components.eip712_domain_chain_id
                chain_name == result[c].components.eip712_hyperliquid_chain_name
            IN /\ Some(payload.signatureChainId) = chain_id
               /\ Some(payload.hyperliquidChain) = chain_name
               /\ Some(digest.message.signature_chain_id) = chain_id
               /\ Some(digest.message.hyperliquid_chain) = chain_name
               /\ Some(digest.domain_chain_id) = chain_id
               /\ <<payload.signatureChainId, payload.hyperliquidChain>>
                      = IF OnMainnet THEN <<42161, "Mainnet">> ELSE <<421614, "Testnet">>

\* a builder-fee approval prepared on testnet names Testnet and 421614 in its
\* payload
C20_Witness ==
    \E c \in callers :
        /\ Succeeded(c)
        /\ call[c].op = "approve_builder_fee"
        /\ ~OnMainnet
        /\ result[c].components.action_payload_json.signatureChainId = 421614
        /\ result[c].components.action_payload_json.hyperliquidChain = "Testnet"

\* the values a call's components use as nonce: the time or nonce field of the
\* payload and of the hashed action struct (direct domain), the nonce hashed into
\* the connection identifier (indirect domain)
NonceUses(op, components) ==
    CASE op \in {"usdc_transfer", "withdraw", "spot_transfer"} ->
           {components.action_payload_json.time, components.digest_to_sign.message.time}
      [] op \in {"approve_agent", "approve_builder_fee"} ->
           {components.action_payload_json.nonce, components.digest_to_sign.message.nonce}
      [] op \in IndirectOps ->
           {components.digest_to_sign.message.connection_id.nonce}

\* caller c's call draws its nonce in this step and goes on to succeed
DrawsOk(c) ==
    /\ call[c].pc = "idle"
    /\ call'[c].pc = "drawn"
    /\ call'[c].pending.status = "Ok"

\* caller c's call returns components in this step without a nonce draw
OkWithoutDraw(c) ==
    /\ call[c].pc = "idle"
    /\ call'[c].pc = "idle"
    /\ <<call[c], result[c]>> # <<call'[c], result'[c]>>
    /\ result'[c].status = "Ok"

\* C21: a successful call other than the bridge deposit draws one value from the
\* Nonce Source, in one step, and none afterwards; components.nonce is that
\* value, and so are the time / nonce field of a direct-domain payload and of the
\* struct hashed, and the nonce hashed into an indirect-domain connection
\* identifier; only the bridge deposit succeeds without a draw
C21_SingleNonceEverywhere ==
    [][\A c \in callers :
          /\ DrawsOk(c) =>
                /\ cur_nonce' = next_nonce(cur_nonce, now)
                /\ cur_nonce' > cur_nonce
                /\ call'[c].pending.components.nonce = cur_nonce'
                /\ NonceUses(call'[c].op, call'[c].pending.components) = {cur_nonce'}
          /\ ReturnsOk(c) =>
                /\ cur_nonce' = cur_nonce
                /\ result'[c].components = call[c].pending.components
                /\ NonceUses(call[c].op, result'[c].components)
                       = {result'[c].components.nonce}
          /\ OkWithoutDraw(c) => call'[c].op = "bridge_deposit"]_vars

\* an agent approval came back with the bumped nonce 2, in millisecond 1, in its
\* payload and in the struct hashed
C21_Witness ==
    \E c \in callers :
        /\ Succeeded(c)
        /\ call[c].op = "approve_agent"
        /\ now = 1
        /\ cur_nonce = 2
        /\ result[c].components.nonce = 2
        /\ NonceUses("approve_agent", result[c].components) = {2}

\* the builder constructed alike but on the other network
NetworkTwin(self) ==
    [self EXCEPT !.http_client =
        [base_url |-> get_url(IF is_mainnet(@) THEN Testnet ELSE Mainnet)]]

\* C22: for every successful indirect-domain call, the builder with the same
\* asset map and vault address on the other network, given the same request and
\* the same nonce, returns the same action payload, the same digest and the same
\* chain id 1337
C22_IndirectNetworkIndependent ==
    \A c \in callers :
        (Succeeded(c) /\ call[c].op \in IndirectOps) =>
            LET twin == prepare_unsigned(NetworkTwin(builder), call[c].op, call[c].req,
                                        result[c].components.nonce).result
            IN /\ is_mainnet(NetworkTwin(builder).http_client) # is_mainnet(builder.http_client)
               /\ twin.status = "Ok"
               /\ twin.components.action_payload_json
                      = result[c].components.action_payload_json
               /\ twin.components.digest_to_sign = result[c].components.digest_to_sign
               /\ twin.components.eip712_domain_chain_id = Some(1337)
               /\ result[c].components.eip712_domain_chain_id = Some(1337)

\* a leverage update was prepared on mainnet for a vault, and the testnet builder
\* gives the same digest
C22_Witness ==
    \E c \in callers :
        /\ Succeeded(c)
        /\ call[c].op = "update_leverage"
        /\ OnMainnet
        /\ builder.vault_address = Some(VaultA)
        /\ ~is_mainnet(NetworkTwin(builder).http_client)
        /\ prepare_unsigned(NetworkTwin(builder), call[c].op, call[c].req,
                            result[c].components.nonce).result.components.digest_to_sign
               = result[c].components.digest_to_sign

\* C23: in a successful vault transfer the address inside the action, serialized
\* and hashed, is the call's vault_address argument, or the zero address without
\* one; the vault address hashed into the connection identifier, the envelope
\* source and components.vault_address are the builder's own, whatever the
\* argument
C23_VaultTransferAddresses ==
    \A c \in callers :
        (Succeeded(c) /\ call[c].op = "vault_transfer") =>
            LET components == result[c].components
                argument == call[c].req.vault_address
                envelope == Envelope(components.digest_to_sign)
            IN /\ components.action_payload_json.vaultAddress
                      = IF is_some(argument) THEN unwrap(argument) ELSE ZeroAddress
               /\ envelope.connection_id.action.vault_address
                      = components.action_payload_json.vaultAddress
               /\ envelope.connection_id.vault_address
                      = unwrap_or_default(builder.vault_address)
               /\ envelope.source = unwrap_or_default(builder.vault_address)
               /\ components.vault_address = builder.vault_address

\* a builder with vault address A prepared a transfer into vault B
C23_Witness ==
    \E c \in callers :
        /\ Succeeded(c)
        /\ call[c].op = "vault_transfer"
        /\ builder.vault_address = Some(VaultA)
        /\ call[c].req.vault_address = Some(VaultB)
        /\ result[c].components.action_payload_json.vaultAddress = VaultB
        /\ result[c].components.vault_address = Some(VaultA)
        /\ Envelope(result[c].components.digest_to_sign).source = VaultA

\* the last position (1-based) at which sequence q holds an element that
\* satisfies Is
LastPosition(q, Is(_)) ==
    CHOOSE i \in 1..Len(q) : Is(q[i]) /\ \A j \in (i + 1)..Len(q) : ~Is(q[j])

\* C24: the asset map holds the symbols of the universe and the names of the
\* spot-pair table and nothing else; a name of the spot-pair table resolves to
\* the index its last entry in the table gives, also when the universe holds it
\* too; any other symbol resolves to its last position in the universe, counted
\* from 0, which is its only position when it is not repeated
C24_AssetMapPrecedence ==
    LET universe == builder.meta.universe
        map == builder.coin_to_asset
    IN /\ DOMAIN map = SeqToSet(universe) \cup {spot_meta[n].name : n \in 1..Len(spot_meta)}
       /\ \A s \in DOMAIN map :
              IF NotInSpotTable(s)
              THEN LET IsS(x) == x = s IN map[s] = LastPosition(universe, IsS) - 1
              ELSE LET NamesS(e) == e.name = s
                   IN map[s] = spot_meta[LastPosition(spot_meta, NamesS)].index

\* the universe holds BTC twice, the spot table redefines ETH, and cancels of
\* both resolved to position 1 and to the spot table's index
C24_Witness ==
    \E c \in callers :
        /\ builder.meta.universe = <<"BTC", "BTC">>
        /\ spot_meta = <<[name |-> "ETH", index |-> SpotPairIndex]>>
        /\ builder.coin_to_asset["BTC"] = 1
        /\ Succeeded(c)
        /\ call[c].op = "bulk_cancel"
        /\ call[c].req.cancels = <<"BTC", "ETH">>
        /\ AssetIndices(result[c].components.action_payload_json) = <<1, SpotPairIndex>>

\* the number of characters of a call-data string
DataLength(data) == 2 + 8 + data.to_padded.digits + data.amount_padded.digits

\* C25: the call data of a successful bridge deposit is "0x", the selector
\* a9059cbb, the bridge address as 64 hexadecimal digits and the amount as 64
\* hexadecimal digits, 138 characters in total
C25_TransferCallData ==
    \A c \in callers :
        (Succeeded(c) /\ call[c].op = "bridge_deposit") =>
            LET data == result[c].components.action_payload_json.data
            IN /\ data.prefix = "0x"
               /\ data.selector = "a9059cbb"
               /\ data.to_padded.of = get_bridge_address(OnMainnet)
               /\ data.to_padded.digits = 64
               /\ data.amount_padded.of = call[c].req.amount
               /\ data.amount_padded.digits = 64
               /\ DataLength(data) = 138

\* the number a sequence of hexadecimal digits spells
RECURSIVE HexValue(_)
HexValue(digits) ==
    IF Len(digits) = 0 THEN 0
    ELSE 16 * HexValue(SubSeq(digits, 1, Len(digits) - 1)) + digits[Len(digits)]

\* the number a chainId string spells
ChainIdValue(s) ==
    CASE s = "0xa4b1" -> HexValue(<<10, 4, 11, 1>>)
      [] s = "0x66eee" -> HexValue(<<6, 6, 14, 14, 14>>)
      [] OTHER -> -1

\* the payload of caller c's bridge deposit names the token contract, the bridge
\* contract and the chain of the builder's network, the requested amount and
\* value "0x0", and its chainId is the number in eip712_domain_chain_id
DepositOnOneNetwork(c) ==
    LET payload == result[c].components.action_payload_json
    IN /\ DOMAIN payload = {"to", "data", "value", "chainId"}
       /\ payload.to = IF OnMainnet THEN USDC_MAINNET ELSE USDC_TESTNET
       /\ payload.data.selector = "a9059cbb"
       /\ payload.data.to_padded.of = IF OnMainnet THEN BRIDGE_MAINNET ELSE BRIDGE_TESTNET
       /\ payload.data.amount_padded.of = call[c].req.amount
       /\ payload.value = "0x0"
       /\ payload.chainId = IF OnMainnet THEN "0xa4b1" ELSE "0x66eee"
       /\ Some(ChainIdValue(payload.chainId)) = result[c].components.eip712_domain_chain_id

\* the call data is that of transfer(address,uint256): after the selector, one
\* 32-byte word for the recipient and one for the amount
TransferCall(data) ==
    /\ data.prefix = "0x"
    /\ data.to_padded.digits = 64
    /\ data.amount_padded.digits = 64

\* C26: a successful bridge deposit returns a chain-call payload whose to is the
\* USDC contract of the builder's network, whose call data transfers the
\* requested amount to the bridge contract of the same network, whose value is
\* "0x0" and whose chainId spells the number in eip712_domain_chain_id
C26_BridgeDepositPayload ==
    \A c \in callers :
        (Succeeded(c) /\ call[c].op = "bridge_deposit") =>
            /\ DepositOnOneNetwork(c)
            /\ TransferCall(result[c].components.action_payload_json.data)

\* the part of C26 that is about the network alone
C26_NeverMixesNetworks ==
    \A c \in callers :
        (Succeeded(c) /\ call[c].op = "bridge_deposit") => DepositOnOneNetwork(c)

\* caller c makes a bulk-cancel call in this step
BulkCancelStep(c) ==
    /\ call[c].pc = "idle"
    /\ call'[c].op = "bulk_cancel"
    /\ <<call[c], result[c]>> # <<call'[c], result'[c]>>

\* the cancels list of a payload answers the batch entry by entry
AnswersBatch(payload, batch) ==
    /\ Len(payload.cancels) = Len(batch)
    /\ \A i \in 1..Len(batch) :
           /\ payload.cancels[i].asset = builder.coin_to_asset[batch[i].asset]
           /\ payload.cancels[i].oid = batch[i].oid

\* C27: a bulk cancel whose symbols are all known draws a nonce and builds an
\* action whose cancels list has the length and order of the input, each entry
\* with the resolved asset index and the order id as given (none for an empty
\* input), and returns it; a bulk cancel with an unknown symbol anywhere in the
\* input returns AssetNotFound and no components, and draws no nonce
C27_BulkCancelAllOrNothing ==
    [][\A c \in callers :
          /\ BulkCancelStep(c) =>
                LET batch == ClientCancelRequests(call'[c].req.cancels)
                IN IF \A i \in 1..Len(batch) : batch[i].asset \in DOMAIN builder.coin_to_asset
                   THEN /\ call'[c].pc = "drawn"
                        /\ call'[c].pending.status = "Ok"
                        /\ AnswersBatch(call'[c].pending.components.action_payload_json,
                                        batch)
                   ELSE /\ call'[c].pc = "idle"
                        /\ result'[c] = Err("AssetNotFound")
                        /\ result'[c].components = NoComponents
                        /\ cur_nonce' = cur_nonce
          /\ (ReturnsOk(c) /\ call[c].op = "bulk_cancel") =>
                AnswersBatch(result'[c].components.action_payload_json,
                             ClientCancelRequests(call[c].req.cancels))]_vars

\* a batch of two cancels, ETH before BTC, came back in that order with the two
\* order ids
C27_Witness ==
    \E c \in callers :
        /\ Succeeded(c)
        /\ call[c].op = "bulk_cancel"
        /\ call[c].req.cancels = <<"ETH", "BTC">>
        /\ builder.meta.universe = <<"BTC", "ETH">>
        /\ result[c].components.action_payload_json.cancels
               = <<[asset |-> 1, oid |-> 12345], [asset |-> 0, oid |-> 12346]>>

\* what prepare_unsigned_cancel returns for a cancel of symbol a at the nonce of
\* caller c's result, and what prepare_unsigned_bulk_cancel returns for the
\* batch made of that one cancel
AsSingleCancel(c, a) ==
    prepare_unsigned_cancel(builder, ClientCancelRequest(a),
                            result[c].components.nonce).result

AsBatchOfOne(c, a) ==
    prepare_unsigned_bulk_cancel(builder, <<ClientCancelRequest(a)>>,
                                 result[c].components.nonce).result

\* C28: for every successful cancel, the bulk cancel of the batch made of that
\* one request, on the same builder and with the same nonce, returns the same
\* payload, digest, nonce, vault address, chain id, chain name and signature
\* flag; and for every successful bulk cancel of a batch of one, so does the
\* cancel of its one request
C28_CancelIsBatchOfOne ==
    \A c \in callers :
        /\ (Succeeded(c) /\ call[c].op = "cancel") =>
              /\ ClientCancelRequests(<<call[c].req.asset>>)
                     = <<ClientCancelRequest(call[c].req.asset)>>
              /\ AsBatchOfOne(c, call[c].req.asset).status = "Ok"
              /\ AsBatchOfOne(c, call[c].req.asset).components = result[c].components
        /\ (Succeeded(c) /\ call[c].op = "bulk_cancel" /\ Len(call[c].req.cancels) = 1) =>
              /\ AsSingleCancel(c, call[c].req.cancels[1]).status = "Ok"
              /\ AsSingleCancel(c, call[c].req.cancels[1]).components = result[c].components

\* a cancel of ETH resolved to the spot table's index, and the batch of that
\* one cancel gives the same digest
C28_Witness ==
    \E c \in callers :
        /\ Succeeded(c)
        /\ call[c].op = "cancel"
        /\ call[c].req.asset = "ETH"
        /\ ~NotInSpotTable("ETH")
        /\ result[c].components.action_payload_json.cancels
               = <<[asset |-> SpotPairIndex, oid |-> 12345]>>
        /\ AsBatchOfOne(c, "ETH").components.digest_to_sign
               = result[c].components.digest_to_sign

\* m * 1,000,000 for the margin strings m whose count of millionths is a signed
\* 64-bit integer
ExactMillionths(s) ==
    CASE s = "100.5" -> 100500000
      [] s = "-2" -> -2000000
      [] s = "0" -> 0

WithinI64 == {"100.5", "-2", "0"}

\* C29: prepare_unsigned_update_isolated_margin with a known symbol and a margin
\* string that denotes a decimal number m succeeds with is_buy = true and
\* ntli = m * 1,000,000 when that is a signed 64-bit integer, whatever the sign
\* of m, and returns no components when it is not
C29_MarginIsExact ==
    \A c \in callers :
        (/\ Returned(c)
         /\ call[c].op = "update_isolated_margin"
         /\ call[c].req.asset \in DOMAIN builder.coin_to_asset
         /\ call[c].req.margin_to_add \in FiniteDecimals)
        => IF call[c].req.margin_to_add \in WithinI64
           THEN /\ result[c].status = "Ok"
                /\ result[c].components.action_payload_json.isBuy = TRUE
                /\ result[c].components.action_payload_json.ntli
                       = ExactMillionths(call[c].req.margin_to_add)
           ELSE /\ result[c].status = "Err"
                /\ result[c].components = NoComponents

\* the part of C29 that is about the margins within the signed 64-bit range
C29_ExactWithinRange ==
    \A c \in callers :
        (/\ Returned(c)
         /\ call[c].op = "update_isolated_margin"
         /\ call[c].req.asset \in DOMAIN builder.coin_to_asset
         /\ call[c].req.margin_to_add \in WithinI64)
        => /\ result[c].status = "Ok"
           /\ result[c].components.action_payload_json.isBuy = TRUE
           /\ result[c].components.action_payload_json.ntli
                  = ExactMillionths(call[c].req.margin_to_add)

\* C30: a successful prepare_unsigned_approve_agent hands back a key and
\* components such that the agentAddress of the payload is the address derived
\* from that key, the struct the digest was computed over is an ApproveAgent
\* with that same address, and the agent name is absent from both
C30_KeyMatchesApprovedAgent ==
    \A c \in callers :
        (Succeeded(c) /\ call[c].op = "approve_agent") =>
            /\ is_some(result[c].key)
            /\ LET address == LocalWallet_address(unwrap(result[c].key))
                   payload == result[c].components.action_payload_json
                   digest == result[c].components.digest_to_sign
               IN /\ payload.type = "approveAgent"
                  /\ payload.agentAddress = address
                  /\ payload.agentName = None
                  /\ digest.primary_type = "HyperliquidTransaction:ApproveAgent"
                  /\ digest.message.agent_address = address
                  /\ digest.message.agent_name = None

\* two agent approvals in a row: the second, with another key than the first,
\* names the address of its own key
C30_Witness ==
    \E c \in callers :
        /\ Succeeded(c)
        /\ call[c].op = "approve_agent"
        /\ result[c].components.nonce >= 2
        /\ result[c].key = Some("key2")
        /\ result[c].components.digest_to_sign.message.agent_address
               = LocalWallet_address("key2")
        /\ LocalWallet_address("key2") # LocalWallet_address("key1")

====
